---------------------------- MODULE Spec2Model ----------------------------
(***************************************************************************)
(* A model of lavago: the Socket (connection with reconnect, serialized    *)
(* writes), the Node (dispatcher, guild -> Player registry) and the Player *)
(* (per-guild playback state machine).                                     *)
(*                                                                         *)
(* The specifications share the variables:                                 *)
(*   SpecConnect, SpecSocket, SpecSend   the Socket alone, with Send,      *)
(*               Close and the write serializer (sendListener) as          *)
(*               interleaved steps;                                        *)
(*   SpecPlayer  one Player and the calls on it;                           *)
(*   Spec        the Node: Connect, Close, Join, Leave and its Players;    *)
(*   SpecFrames  the Node handling inbound frames (socketDataReceived);   *)
(*   SpecRead    the read pump (readListener);                             *)
(*   SpecVoice   the two voice callbacks of the Node.                      *)
(* In SpecPlayer, Spec, SpecFrames and SpecVoice every exported call or    *)
(* callback is one action.  Calls running concurrently are interpreted     *)
(* statement by statement, with the Player's mutex explicit, in            *)
(*   SpecJoin    Join and Leave for one guild;                             *)
(*   SpecStopEnd Stop against a TrackEnd frame;                            *)
(*   SpecSkips   Skip calls on one Player;                                 *)
(*   SpecRace    every Player call against inbound frames;                 *)
(*   SpecOrder   two event frames, each in its own goroutine.              *)
(***************************************************************************)
EXTENDS Integers, Sequences, FiniteSets, TLC

(***************************************************************************)
(* Bounds of the model.                                                    *)
(***************************************************************************)
\* largest Config.ReconnectAttempts tried
MaxAttempts == 2
\* largest Config.ReconnectDelay tried (in delay units)
MaxDelay == 2
\* number of goroutines calling Socket.Send, one call each
NumSenders == 3
\* number of Socket.Close calls made
MaxCloses == 2
\* number of Players ever created by a Node
MaxPlayers == 2
\* longest Player.Queue
MaxQueue == 2
\* number of ReadMessage calls the read pump is followed through
MaxReads == 3
\* number of goroutines calling into the Node and its Players concurrently
NumCallers == 2
\* number of calls each of these goroutines makes, one after the other
MaxCallsEach == 2

VARIABLES
    cfg,            \* *Config: ReconnectAttempts, ReconnectDelay, EnableResume
    socket,         \* Socket: connectionAttempts, reconnectInterval, conn, connected, sendChan
    sendListener,   \* the goroutine of Socket.sendListener: pc, and the wsData it holds
    goOnOpen,       \* TRUE while a spawned `go s.OnOpen()` has not run yet
    senders,        \* per calling goroutine, its Socket.Send call: pc, data, errChan, err
    closer,         \* the goroutine calling Socket.Close: pc, calls made and returned;
                    \* onConnected: the running call found the Socket connected;
                    \* closedConnected: such a call has returned
    accepted,       \* the wsData values in the order sendListener received them
    wire,           \* the transport: every WriteMessage call, in order, with its result
    reader,         \* the goroutine of Socket.readListener: pc, the results of its
                    \* ReadMessage calls in order, and the goroutines it started with
                    \* `go s.DataReceived(data)` and `go s.ErrorReceived(err)`, in order
    node,           \* Node: connected, players (guild -> index in heap, 0: none),
                    \* playersNil (n.players == nil), voiceStates (guild -> voiceState),
                    \* voiceStatesNil, callbacks (the non-nil func fields)
    heap,           \* every Player created so far, in order of creation
    trackPos,       \* per Track, its Info.Position
    calls,          \* per goroutine calling into the Node or a Player, or handling a
                    \* frame: the call it is in, the statement it is at (pc), its
                    \* locals, and what it returned
    mutex,          \* per Player, the goroutine holding its lock (0: nobody)
    crashed,        \* TRUE once a goroutine panicked (the process is gone)
    last            \* the most recent completed call: what it was given and what it returned

socketVars == <<socket, sendListener, goOnOpen, senders, closer, accepted, wire, reader>>
nodeVars == <<node, heap, trackPos>>
callVars == <<calls, mutex>>
vars == <<cfg, socketVars, nodeVars, callVars, crashed, last>>

Callers == 1..NumCallers

Senders == 1..NumSenders

(***************************************************************************)
(* Config (NewConfig) and NewSocket                                        *)
(***************************************************************************)
Configs ==
    [ReconnectAttempts : 0..MaxAttempts, ReconnectDelay : 1..MaxDelay,
     EnableResume : BOOLEAN]

\* NewSocket: no connection, counters at zero, an open unbuffered sendChan.
NewSocket ==
    [connectionAttempts |-> 0, reconnectInterval |-> 0, conn |-> "nil",
     connected |-> FALSE, sendChan |-> "open"]

(***************************************************************************)
(* Socket.Connect                                                          *)
(*                                                                         *)
(* The dialer is the environment: a script says how many dials fail before *)
(* one answers, and what that one answers ("fail": it fails too; "v3": the *)
(* server reports Lavalink-Api-Version 3; "v2": another version; "nover":  *)
(* no parsable version header).                                            *)
(***************************************************************************)
DialOutcomes == {"fail", "v3", "v2", "nover"}

DialScripts ==
    {sc \in [fails : 0..(MaxAttempts + 1), then : DialOutcomes] :
        sc.then = "fail" => sc.fails = 0}

\* the outcome of the i-th dial of a Connect call
Dial(script, i) == IF i <= script.fails THEN "fail" ELSE script.then

\* whether one more retry is allowed after a failed dial
MayRetry(s) == s.connectionAttempts < cfg.ReconnectAttempts

\* the Socket after `connectionAttempts++; reconnectInterval += ReconnectDelay`
Backoff(s) ==
    [s EXCEPT !.connectionAttempts = @ + 1,
              !.reconnectInterval = @ + cfg.ReconnectDelay]

\* (mutant) a Connect that keeps the connection of the wrong version
VersionMismatchKept(s, i, waits) ==
    [sock |-> [s EXCEPT !.conn = "open"], err |-> "VersionMismatch", dials |-> i,
     waits |-> waits]

\* what Connect returns when lver != 3: conn is a local, nothing was stored
VersionMismatch(s, i, waits) ==
    [sock |-> s, err |-> "VersionMismatch", dials |-> i, waits |-> waits]

\* Connect, entered with the i-th dial next; waits are the sleeps made so far.
\* The result: the Socket, the error returned, the dials made, the sleeps.
RECURSIVE SocketConnect(_, _, _, _)
SocketConnect(s, script, i, waits) ==
    IF s.conn # "nil"
    THEN [sock |-> s, err |-> "AlreadyOpen", dials |-> i - 1, waits |-> waits]
    ELSE CASE Dial(script, i) = "fail" ->
                IF MayRetry(s)
                THEN SocketConnect(Backoff(s), script, i + 1,
                                   Append(waits, Backoff(s).reconnectInterval))
                ELSE [sock |-> s, err |-> "DialError", dials |-> i, waits |-> waits]
           [] Dial(script, i) = "nover" ->
                [sock |-> s, err |-> "AtoiError", dials |-> i, waits |-> waits]
           [] Dial(script, i) = "v2" -> VersionMismatch(s, i, waits)
           [] OTHER ->
                [sock |-> [s EXCEPT !.conn = "open", !.connected = TRUE],
                 err |-> "nil", dials |-> i, waits |-> waits]

\* the sendListener goroutine right after `go s.sendListener()`
ListenerStarted == [pc |-> "recv", call |-> 0]

\* the readListener goroutine right after `go s.readListener()`, and before
ReaderStarted == [pc |-> "read", reads |-> <<>>, goData |-> <<>>, goErr |-> <<>>]

ReaderOff == [pc |-> "off", reads |-> <<>>, goData |-> <<>>, goErr |-> <<>>]

Connect(script) ==
    /\ ~crashed
    /\ LET r == SocketConnect(socket, script, 1, <<>>) IN
        /\ socket' = r.sock
        /\ goOnOpen' = IF r.err = "nil" THEN TRUE ELSE goOnOpen
        /\ sendListener' = IF r.err = "nil" THEN ListenerStarted ELSE sendListener
        /\ reader' = IF r.err = "nil" THEN ReaderStarted ELSE reader
        /\ last' = [op |-> "Connect", script |-> script, pre |-> socket,
                    err |-> r.err, dials |-> r.dials, waits |-> r.waits]
    /\ UNCHANGED <<cfg, callVars, nodeVars, senders, closer, accepted, wire, crashed>>

(***************************************************************************)
(* The transport.  A connection that broke (or was closed) fails every     *)
(* later write; none is made on a nil connection without a panic.          *)
(***************************************************************************)
WriteMessage(conn) == IF conn = "open" THEN "nil" ELSE "WriteError"

\* the network drops the established connection
TransportBreak ==
    /\ ~crashed
    /\ socket.conn = "open"
    /\ socket' = [socket EXCEPT !.conn = "broken"]
    /\ UNCHANGED <<cfg, callVars, nodeVars, reader, sendListener, goOnOpen, senders, closer, accepted, wire,
                   crashed, last>>

(***************************************************************************)
(* Socket.Send, step by step                                               *)
(*   idle  --SendBegin-->  done (rejected)  or  offer (blocked in          *)
(*   `s.sendChan <- wsData{data, errChan}`)  --ListenerReceive-->  wait    *)
(*   (blocked in `<-errChan`)  --SendReturn-->  done                       *)
(***************************************************************************)
\* the payloads goroutine s may pass: none, or bytes of its own
Payloads(s) == {<<>>, <<s>>}

NoCall == [pc |-> "idle", data |-> <<>>, errChan |-> <<>>, err |-> "none",
           afterClose |-> FALSE]

\* (mutant) Send without the check for an empty payload
SendCheckNoEmpty(s, data) == IF ~s.connected THEN "NotConnected" ELSE "nil"

\* the two checks at the head of Send: the error they return, or "nil"
SendCheck(s, data) ==
    IF ~s.connected THEN "NotConnected"
    ELSE IF Len(data) = 0 THEN "EmptyPayload"
    ELSE "nil"

SendBegin(c, data) ==
    /\ ~crashed
    /\ senders[c].pc = "idle"
    /\ senders' = [senders EXCEPT ![c] =
            IF SendCheck(socket, data) # "nil"
            THEN [@ EXCEPT !.pc = "done", !.data = data,
                           !.err = SendCheck(socket, data),
                           !.afterClose = closer.closedConnected]
            ELSE [@ EXCEPT !.pc = "offer", !.data = data,
                           !.afterClose = closer.closedConnected]]
    /\ UNCHANGED <<cfg, callVars, nodeVars, reader, socket, sendListener, goOnOpen, closer, accepted, wire,
                   crashed, last>>

\* a send on the closed sendChan panics
SendOnClosed(c) ==
    /\ ~crashed
    /\ senders[c].pc = "offer"
    /\ socket.sendChan = "closed"
    /\ crashed' = TRUE
    /\ UNCHANGED <<cfg, callVars, nodeVars, reader, socketVars, last>>

SendReturn(c) ==
    /\ ~crashed
    /\ senders[c].pc = "wait"
    /\ senders[c].errChan # <<>>
    /\ senders' = [senders EXCEPT ![c] =
            [@ EXCEPT !.pc = "done", !.err = Head(senders[c].errChan),
                      !.errChan = Tail(senders[c].errChan)]]
    /\ UNCHANGED <<cfg, callVars, nodeVars, reader, socket, sendListener, goOnOpen, closer, accepted, wire,
                   crashed, last>>

(***************************************************************************)
(* Socket.sendListener: for data := range s.sendChan { write; reply }      *)
(***************************************************************************)
\* (mutant) one errChan shared by all the calls
ReplyChanShared(call) == 1

\* the errChan a write's result is sent on: the one in the wsData received
ReplyChan(call) == call

\* the unbuffered sendChan hands goroutine c's wsData to the listener
ListenerReceive(c) ==
    /\ ~crashed
    /\ sendListener.pc = "recv"
    /\ socket.sendChan = "open"
    /\ senders[c].pc = "offer"
    /\ sendListener' = [pc |-> "write", call |-> c]
    /\ senders' = [senders EXCEPT ![c].pc = "wait"]
    /\ accepted' = Append(accepted, c)
    /\ UNCHANGED <<cfg, callVars, nodeVars, reader, socket, goOnOpen, closer, wire, crashed, last>>

\* s.conn.WriteMessage(websocket.TextMessage, data.data)
ListenerWrite ==
    /\ ~crashed
    /\ sendListener.pc = "write"
    /\ wire' = Append(wire, [call |-> sendListener.call,
                             data |-> senders[sendListener.call].data,
                             err |-> WriteMessage(socket.conn)])
    /\ sendListener' = [sendListener EXCEPT !.pc = "reply"]
    /\ UNCHANGED <<cfg, callVars, nodeVars, reader, socket, goOnOpen, senders, closer, accepted, crashed, last>>

\* data.errChan <- (the write's result); the channel has room for one
ListenerReply ==
    /\ ~crashed
    /\ sendListener.pc = "reply"
    /\ senders' = [senders EXCEPT ![ReplyChan(sendListener.call)].errChan =
                        Append(@, wire[Len(wire)].err)]
    /\ sendListener' = [pc |-> "recv", call |-> 0]
    /\ UNCHANGED <<cfg, callVars, nodeVars, reader, socket, goOnOpen, closer, accepted, wire, crashed, last>>

\* the range loop ends when sendChan is closed
ListenerExit ==
    /\ ~crashed
    /\ sendListener.pc = "recv"
    /\ socket.sendChan = "closed"
    /\ sendListener' = [pc |-> "exit", call |-> 0]
    /\ UNCHANGED <<cfg, callVars, nodeVars, reader, socket, goOnOpen, senders, closer, accepted, wire, crashed, last>>

(***************************************************************************)
(* Socket.Close: connected = false (under the lock); close(s.sendChan);    *)
(* return s.conn.Close()                                                   *)
(***************************************************************************)
\* (mutant) Close that leaves the connected flag as it is
CloseFlagKept(s) == s

\* the Socket after the locked assignment at the head of Close
CloseFlag(s) == [s EXCEPT !.connected = FALSE]

CloseBegin ==
    /\ ~crashed
    /\ closer.pc = "idle"
    /\ closer.calls < MaxCloses
    /\ socket' = CloseFlag(socket)
    /\ closer' = [closer EXCEPT !.pc = "closeChan", !.calls = @ + 1,
                                !.onConnected = socket.connected]
    /\ UNCHANGED <<cfg, callVars, nodeVars, reader, sendListener, goOnOpen, senders, accepted, wire, crashed, last>>

\* close(s.sendChan): closing a closed channel panics
CloseChan ==
    /\ ~crashed
    /\ closer.pc = "closeChan"
    /\ IF socket.sendChan = "closed"
       THEN /\ crashed' = TRUE
            /\ UNCHANGED <<socket, closer>>
       ELSE /\ socket' = [socket EXCEPT !.sendChan = "closed"]
            /\ closer' = [closer EXCEPT !.pc = "closeConn"]
            /\ UNCHANGED crashed
    /\ UNCHANGED <<cfg, callVars, nodeVars, reader, sendListener, goOnOpen, senders, accepted, wire, last>>

\* s.conn.Close(): a nil s.conn is dereferenced and panics
CloseConn ==
    /\ ~crashed
    /\ closer.pc = "closeConn"
    /\ IF socket.conn = "nil"
       THEN /\ crashed' = TRUE
            /\ UNCHANGED <<socket, closer>>
       ELSE /\ socket' = [socket EXCEPT !.conn = "closed"]
            /\ closer' = [closer EXCEPT !.pc = "idle", !.returned = @ + 1,
                                        !.closedConnected = @ \/ closer.onConnected]
            /\ UNCHANGED crashed
    /\ UNCHANGED <<cfg, callVars, nodeVars, reader, sendListener, goOnOpen, senders, accepted, wire, last>>

(***************************************************************************)
(* Socket.Send as one step, for a caller that runs alone: the checks, the  *)
(* hand-over to sendListener, its write, and the result it passes back.    *)
(* The result records the bytes passed and the error returned.             *)
(***************************************************************************)
SocketSend(s, data) ==
    [data |-> data,
     err |-> IF SendCheck(s, data) # "nil" THEN SendCheck(s, data)
             ELSE WriteMessage(s.conn)]

(***************************************************************************)
(* The payloads (payloads.go) and json.Marshal.  A JSON object is a record *)
(* of the fields that are written: a field tagged omitempty is left out    *)
(* when it holds its zero value.  The bytes of a JSON text are one token.  *)
(***************************************************************************)
NoFields == [k \in {} |-> 0]

OmitEmpty(key, value, zero) == IF value = zero THEN NoFields ELSE key :> value

Marshal(object) == <<object>>

playerPlayPayload(guildID, track, noReplace, startTime, endTime, volume, pause) ==
    ("op" :> "play") @@ OmitEmpty("guildId", guildID, "") @@ OmitEmpty("track", track, "")
        @@ OmitEmpty("noReplace", noReplace, FALSE)
        @@ OmitEmpty("startTime", startTime, 0) @@ OmitEmpty("endTime", endTime, 0)
        @@ OmitEmpty("volume", volume, 0) @@ ("pause" :> pause)

playerStopPayload(guildID) == ("op" :> "stop") @@ OmitEmpty("guildId", guildID, "")

playerPausePayload(guildID, pause) ==
    ("op" :> "pause") @@ OmitEmpty("guildId", guildID, "") @@ ("pause" :> pause)

playerSeekPayload(guildID, position) ==
    ("op" :> "seek") @@ OmitEmpty("guildId", guildID, "")
        @@ OmitEmpty("position", position, 0)

\* the volume is written under the key "position"
playerVolumePayload(guildID, volume) ==
    ("op" :> "volume") @@ OmitEmpty("guildId", guildID, "")
        @@ OmitEmpty("position", volume, 0)

playerDestroyPayload(guildID) == ("op" :> "destroy") @@ OmitEmpty("guildId", guildID, "")

voiceServerPayload(endpoint, token) ==
    OmitEmpty("token", token, "") @@ OmitEmpty("endpoint", endpoint, "")

\* the event object is written whatever it holds: omitempty skips no struct
serverUpdatePayload(guildID, sessionID, endpoint, token) ==
    ("op" :> "voiceUpdate") @@ OmitEmpty("guildId", guildID, "")
        @@ OmitEmpty("sessionId", sessionID, "")
        @@ ("event" :> voiceServerPayload(endpoint, token))

resumePayload(key, timeout) ==
    ("op" :> "configureResuming") @@ OmitEmpty("key", key, "")
        @@ OmitEmpty("timeout", timeout, 0)

(***************************************************************************)
(* Track and Player                                                        *)
(***************************************************************************)
Guilds == {"g1", "g2"}

\* a *Track is named by its encoded hash (Track.Track); "nil" is no track
Tracks == {"t1", "t2"}

\* Track.Info.Length
TrackLength(track) == IF track = "t1" THEN 1 ELSE 2

\* the zero time.Time, and time.Unix(sec, 0)
ZeroTime == [isZero |-> TRUE, unix |-> 0]
TimeUnix(sec) == [isZero |-> FALSE, unix |-> sec]

NewPlayer(guildID) ==
    [LastUpdate |-> ZeroTime, State |-> "None", Queue |-> <<>>, Track |-> "nil",
     GuildID |-> guildID, Volume |-> 0]

\* what a call on a Player leaves: the Player, the error returned, the
\* Socket.Send calls made (data and error each), and whether it panicked
Returned(p, err, sends) == [p |-> p, err |-> err, sends |-> sends, panic |-> FALSE]

Panicked(p, sends) == [p |-> p, err |-> "panic", sends |-> sends, panic |-> TRUE]

\* (mutant) a range that leaves out its two ends
VolumeInRangeOpen(volume) == volume > 0 /\ volume < 1000

\* a volume Play accepts
VolumeInRange(volume) == volume >= 0 /\ volume <= 1000

PlayerPlay(p, s, args) ==
    IF args.Track = "nil" THEN Returned(p, "NilTrack", <<>>)
    ELSE LET p1 == [p EXCEPT !.State = IF args.ShouldPause THEN "Paused" ELSE "Playing"]
             p2 == [p1 EXCEPT !.Volume = args.Volume, !.Track = args.Track]
             sent == SocketSend(s, Marshal(playerPlayPayload(p.GuildID, args.Track,
                        args.NoReplace, args.StartTime, args.EndTime, args.Volume,
                        args.ShouldPause)))
         IN  IF ~VolumeInRange(args.Volume)
             THEN Returned(p1, "VolumeOutOfRange", <<>>)
             ELSE Returned(p2, sent.err, <<sent>>)

PlayerPlayTrack(p, s, track) ==
    IF track = "nil" THEN Returned(p, "NilTrack", <<>>)
    ELSE LET sent == SocketSend(s, Marshal(playerPlayPayload(p.GuildID, track,
                        FALSE, 0, 0, 100, FALSE)))
         IN  Returned([p EXCEPT !.State = "Playing", !.Track = track], sent.err, <<sent>>)

PlayerStop(p, s) ==
    LET sent == SocketSend(s, Marshal(playerStopPayload(p.GuildID)))
    IN  Returned([p EXCEPT !.State = "Stopped"], sent.err, <<sent>>)

\* (mutant) Pause and Resume that do not look for State None
PlayerPauseUnchecked(p, s, pause) ==
    LET sent == SocketSend(s, Marshal(playerPausePayload(p.GuildID, pause)))
        state == IF p.Track = "nil" THEN "Stopped"
                 ELSE IF pause THEN "Paused" ELSE "Playing"
    IN  Returned([p EXCEPT !.State = state], sent.err, <<sent>>)

\* Pause (pause = TRUE) and Resume (pause = FALSE)
PlayerPause(p, s, pause) ==
    IF p.State = "None" THEN Returned(p, "PlayerNotReady", <<>>)
    ELSE LET sent == SocketSend(s, Marshal(playerPausePayload(p.GuildID, pause)))
             state == IF p.Track = "nil" THEN "Stopped"
                      ELSE IF pause THEN "Paused" ELSE "Playing"
         IN  Returned([p EXCEPT !.State = state], sent.err, <<sent>>)

\* (mutant) a Skip that fails on an empty queue and stops nothing
PlayerSkipNeedsQueue(p, s, delay) ==
    IF p.State = "None" \/ p.Queue = <<>>
    THEN Returned(p, "PlayerNotReady", <<>>) @@ [skipped |-> "nil", current |-> "nil"]
    ELSE PlayerPlayTrack([p EXCEPT !.Queue = Tail(p.Queue)], s, Head(p.Queue))
            @@ [skipped |-> p.Track, current |-> Head(p.Queue)]

\* Skip also returns the track skipped and the track now current
PlayerSkip(p, s, delay) ==
    IF p.State = "None"
    THEN Returned(p, "PlayerNotReady", <<>>) @@ [skipped |-> "nil", current |-> "nil"]
    ELSE IF p.Queue = <<>>
    THEN PlayerStop(p, s) @@ [skipped |-> p.Track, current |-> "nil"]
    ELSE PlayerPlayTrack([p EXCEPT !.Queue = Tail(p.Queue)], s, Head(p.Queue))
            @@ [skipped |-> p.Track, current |-> Head(p.Queue)]

PlayerSeek(p, s, position) ==
    IF p.State = "None" THEN Returned(p, "PlayerNotReady", <<>>)
    ELSE IF p.Track = "nil" THEN Panicked(p, <<>>)
    ELSE IF position > TrackLength(p.Track) THEN Returned(p, "PositionOutOfRange", <<>>)
    ELSE LET sent == SocketSend(s, Marshal(playerSeekPayload(p.GuildID, position)))
         IN  Returned(p, sent.err, <<sent>>)

PlayerUpdateVolume(p, s, volume) ==
    LET sent == SocketSend(s, Marshal(playerVolumePayload(p.GuildID, volume)))
    IN  Returned([p EXCEPT !.Volume = volume], sent.err, <<sent>>)

\* (mutant) a Close that does not stop first
PlayerCloseNoStop(p, s) ==
    LET sent == SocketSend(s, Marshal(playerDestroyPayload(p.GuildID)))
    IN  Returned([p EXCEPT !.Queue = <<>>, !.Track = "nil", !.State = "None"],
                 sent.err, <<sent>>)

\* Close: Stop (its error dropped), then destroy, then the reset
PlayerClose(p, s) ==
    LET stopped == PlayerStop(p, s)
        sent == SocketSend(s, Marshal(playerDestroyPayload(p.GuildID)))
    IN  Returned([stopped.p EXCEPT !.Queue = <<>>, !.Track = "nil", !.State = "None"],
                 sent.err, stopped.sends \o <<sent>>)

(***************************************************************************)
(* The calls on a Player, one action each.  last keeps what the call was   *)
(* given and what it returned; connected is Socket.connected at the call.  *)
(***************************************************************************)
PlayArgs ==
    [Track : Tracks \cup {"nil"}, NoReplace : {FALSE}, Volume : {-1, 0, 100, 1000, 1001},
     ShouldPause : BOOLEAN, StartTime : {0}, EndTime : {0}]

\* the arguments PlayTrack stands for: volume 100, no pause, nothing else
DefaultPlay(track) ==
    [Track |-> track, NoReplace |-> FALSE, Volume |-> 100, ShouldPause |-> FALSE,
     StartTime |-> 0, EndTime |-> 0]

PlayerCall(pid, op, args, r) ==
    /\ ~crashed
    /\ pid \in 1..Len(heap)
    /\ heap' = [heap EXCEPT ![pid] = r.p]
    /\ crashed' = r.panic
    /\ last' = [op |-> op, pid |-> pid, args |-> args, pre |-> heap[pid],
                connected |-> socket.connected, result |-> r]
    /\ UNCHANGED <<cfg, callVars, socketVars, node, trackPos>>

Play(pid, args) == PlayerCall(pid, "Play", args, PlayerPlay(heap[pid], socket, args))

PlayTrack(pid, track) ==
    PlayerCall(pid, "PlayTrack", track, PlayerPlayTrack(heap[pid], socket, track))

Stop(pid) == PlayerCall(pid, "Stop", <<>>, PlayerStop(heap[pid], socket))

Pause(pid) == PlayerCall(pid, "Pause", <<>>, PlayerPause(heap[pid], socket, TRUE))

Resume(pid) == PlayerCall(pid, "Resume", <<>>, PlayerPause(heap[pid], socket, FALSE))

Skip(pid, delay) == PlayerCall(pid, "Skip", delay, PlayerSkip(heap[pid], socket, delay))

Seek(pid, position) ==
    PlayerCall(pid, "Seek", position, PlayerSeek(heap[pid], socket, position))

UpdateVolume(pid, volume) ==
    PlayerCall(pid, "UpdateVolume", volume, PlayerUpdateVolume(heap[pid], socket, volume))

ClosePlayer(pid) == PlayerCall(pid, "Close", <<>>, PlayerClose(heap[pid], socket))

\* the caller appends to the exported Queue: p.Queue.Add(track)
QueueAdd(pid, track) ==
    /\ ~crashed
    /\ pid \in 1..Len(heap)
    /\ Len(heap[pid].Queue) < MaxQueue
    /\ heap' = [heap EXCEPT ![pid].Queue = Append(@, track)]
    /\ last' = [op |-> "QueueAdd", pid |-> pid, args |-> track]
    /\ UNCHANGED <<cfg, callVars, socketVars, node, trackPos, crashed>>

(***************************************************************************)
(* Node (NewNode): not connected, empty registry; callbacks names the func *)
(* fields the caller has set.                                              *)
(***************************************************************************)
Callbacks ==
    {"ConnectVoice", "PlayerUpdated", "StatsReceived", "TrackStarted", "TrackEnded",
     "TrackException", "TrackStuck", "WebSocketClosed"}

\* an entry of n.voiceStates, and the lack of one
voiceState(guildID, sessionID) ==
    [exists |-> TRUE, GuildID |-> guildID, SessionID |-> sessionID]

NoVoiceState == [exists |-> FALSE, GuildID |-> "", SessionID |-> ""]

NewNode(callbacks) ==
    [connected |-> FALSE, players |-> [g \in Guilds |-> 0], playersNil |-> FALSE,
     voiceStates |-> [g \in Guilds |-> NoVoiceState], voiceStatesNil |-> FALSE,
     callbacks |-> callbacks]

\* Socket.Close run to its end by a caller that runs alone
SocketClose(s) ==
    IF s.sendChan = "closed" \/ s.conn = "nil"
    THEN [sock |-> CloseFlag(s), panic |-> TRUE]
    ELSE [sock |-> [CloseFlag(s) EXCEPT !.sendChan = "closed", !.conn = "closed"],
          panic |-> FALSE]

\* Node.Connect: Socket.Connect, and n.connected = true when it succeeded
NodeConnect(script) ==
    /\ ~crashed
    /\ LET r == SocketConnect(socket, script, 1, <<>>) IN
        /\ socket' = r.sock
        /\ goOnOpen' = IF r.err = "nil" THEN TRUE ELSE goOnOpen
        /\ sendListener' = IF r.err = "nil" THEN ListenerStarted ELSE sendListener
        /\ reader' = IF r.err = "nil" THEN ReaderStarted ELSE reader
        /\ node' = IF r.err = "nil" THEN [node EXCEPT !.connected = TRUE] ELSE node
        /\ last' = [op |-> "NodeConnect", err |-> r.err]
    /\ UNCHANGED <<cfg, callVars, senders, closer, accepted, wire, heap, trackPos, crashed>>

\* the goroutine `go s.OnOpen()`: n.connected = true, then with EnableResume
\* the configureResuming frame, and a panic when that Send fails
socketOnOpen ==
    /\ ~crashed
    /\ goOnOpen
    /\ goOnOpen' = FALSE
    /\ node' = [node EXCEPT !.connected = TRUE]
    /\ LET sent == SocketSend(socket, Marshal(resumePayload("Lavago", 30))) IN
        /\ crashed' = (cfg.EnableResume /\ sent.err # "nil")
        /\ last' = [op |-> "socketOnOpen",
                    sends |-> IF cfg.EnableResume THEN <<sent>> ELSE <<>>]
    /\ UNCHANGED <<cfg, callVars, socket, sendListener, senders, closer, accepted, wire, reader,
                   heap, trackPos>>

\* Node.Close: the registries are dropped (set to nil), the Socket closed
NodeClose ==
    /\ ~crashed
    /\ IF ~node.connected
       THEN /\ last' = [op |-> "NodeClose", err |-> "NotConnected"]
            /\ UNCHANGED <<node, socket, sendListener, crashed>>
       ELSE /\ node' = [node EXCEPT !.connected = FALSE, !.playersNil = TRUE,
                                    !.players = [g \in Guilds |-> 0],
                                    !.voiceStatesNil = TRUE,
                                    !.voiceStates = [g \in Guilds |-> NoVoiceState]]
            /\ socket' = SocketClose(socket).sock
            /\ crashed' = SocketClose(socket).panic
            /\ sendListener' = IF SocketClose(socket).panic THEN sendListener
                               ELSE [pc |-> "exit", call |-> 0]
            /\ last' = [op |-> "NodeClose", err |-> "nil"]
    /\ UNCHANGED <<cfg, callVars, goOnOpen, senders, closer, accepted, wire, reader, heap,
                   trackPos>>

Channels == {"", "ch"}

(***************************************************************************)
(* n.players, a sync.Map from guild to *Player: Load (0: no entry), Store  *)
(* and Delete.                                                             *)
(***************************************************************************)
\* (mutant) a Load that finds no entry
LoadMisses(n, guildID) == 0

Load(n, guildID) == n.players[guildID]

Store(n, guildID, pid) == [n EXCEPT !.players[guildID] = pid]

\* (mutant) a Delete that leaves the entry
DeleteKeeps(n, guildID) == n

Delete(n, guildID) == [n EXCEPT !.players[guildID] = 0]

\* (mutant) the error of n.ConnectVoice not looked at
ConnectVoiceUnchecked(n, voiceFails) == "nil"

\* the error Join has from n.ConnectVoice: nil when the field is nil
ConnectVoice(n, voiceFails) ==
    IF "ConnectVoice" \in n.callbacks /\ voiceFails THEN "VoiceError" ELSE "nil"

\* Node.Join; voiceFails is what n.ConnectVoice answers when it is called.
\* last keeps the Player returned (0: nil) and the ConnectVoice calls made.
Join(guildID, voiceChannelID, voiceFails) ==
    /\ ~crashed
    /\ IF ~node.connected THEN
            /\ last' = [op |-> "Join", guildID |-> guildID, player |-> 0,
                        err |-> "NotConnected", voiceCalls |-> 0]
            /\ UNCHANGED <<node, heap, crashed>>
       ELSE IF voiceChannelID = "" THEN
            /\ last' = [op |-> "Join", guildID |-> guildID, player |-> 0,
                        err |-> "EmptyChannel", voiceCalls |-> 0]
            /\ UNCHANGED <<node, heap, crashed>>
       ELSE IF node.playersNil THEN
            /\ crashed' = TRUE
            /\ last' = [op |-> "Join", guildID |-> guildID, player |-> 0,
                        err |-> "panic", voiceCalls |-> 0]
            /\ UNCHANGED <<node, heap>>
       ELSE IF Load(node, guildID) # 0 THEN
            /\ last' = [op |-> "Join", guildID |-> guildID,
                        player |-> Load(node, guildID), err |-> "nil", voiceCalls |-> 0]
            /\ UNCHANGED <<node, heap, crashed>>
       ELSE IF ConnectVoice(node, voiceFails) # "nil" THEN
            /\ last' = [op |-> "Join", guildID |-> guildID, player |-> 0,
                        err |-> ConnectVoice(node, voiceFails), voiceCalls |-> 1]
            /\ UNCHANGED <<node, heap, crashed>>
       ELSE /\ Len(heap) < MaxPlayers
            /\ heap' = Append(heap, NewPlayer(guildID))
            /\ node' = Store(node, guildID, Len(heap) + 1)
            /\ last' = [op |-> "Join", guildID |-> guildID, player |-> Len(heap) + 1,
                        err |-> "nil",
                        voiceCalls |-> IF "ConnectVoice" \in node.callbacks THEN 1 ELSE 0]
            /\ UNCHANGED crashed
    /\ UNCHANGED <<cfg, callVars, socketVars, trackPos>>

\* Node.Leave: Player.Close, then the entry is deleted whatever Close returned
Leave(guildID) ==
    /\ ~crashed
    /\ IF ~node.connected THEN
            /\ last' = [op |-> "Leave", guildID |-> guildID, err |-> "NotConnected",
                        sends |-> <<>>]
            /\ UNCHANGED <<node, heap, crashed>>
       ELSE IF node.playersNil THEN
            /\ crashed' = TRUE
            /\ last' = [op |-> "Leave", guildID |-> guildID, err |-> "panic",
                        sends |-> <<>>]
            /\ UNCHANGED <<node, heap>>
       ELSE IF Load(node, guildID) = 0 THEN
            /\ last' = [op |-> "Leave", guildID |-> guildID, err |-> "nil",
                        sends |-> <<>>]
            /\ UNCHANGED <<node, heap, crashed>>
       ELSE LET closed == PlayerClose(heap[Load(node, guildID)], socket) IN
            /\ heap' = [heap EXCEPT ![Load(node, guildID)] = closed.p]
            /\ node' = Delete(node, guildID)
            /\ last' = [op |-> "Leave", guildID |-> guildID, err |-> closed.err,
                        sends |-> closed.sends]
            /\ UNCHANGED crashed
    /\ UNCHANGED <<cfg, callVars, socketVars, trackPos>>

\* (mutant) a GetPlayer that does not look at the guild asked for
GetPlayerAnyGuild(n, guildID) ==
    IF \E g \in Guilds : n.players[g] # 0
    THEN n.players[CHOOSE g \in Guilds : n.players[g] # 0]
    ELSE 0

\* Node.GetPlayer (0: nil)
GetPlayer(n, guildID) == IF guildID \in Guilds THEN Load(n, guildID) ELSE 0

(***************************************************************************)
(* The voice events the caller forwards: OnVoiceStateUpdate records the    *)
(* session of the bot's own user, OnVoiceServerUpdate sends it on.         *)
(***************************************************************************)
\* (mutant) a Store that keeps an entry already there
StoreVoiceStateOnce(n, guildID, sessionID) ==
    IF n.voiceStates[guildID].exists THEN n
    ELSE [n EXCEPT !.voiceStates[guildID] = voiceState(guildID, sessionID)]

\* n.voiceStates.Store(guildID, voiceState{...})
StoreVoiceState(n, guildID, sessionID) ==
    [n EXCEPT !.voiceStates[guildID] = voiceState(guildID, sessionID)]

OnVoiceStateUpdate(shardUserID, triggerUserID, guildID, sessionID) ==
    /\ ~crashed
    /\ IF shardUserID # triggerUserID THEN UNCHANGED <<node, crashed>>
       ELSE IF node.voiceStatesNil THEN crashed' = TRUE /\ UNCHANGED node
       ELSE node' = StoreVoiceState(node, guildID, sessionID) /\ UNCHANGED crashed
    /\ last' = [op |-> "OnVoiceStateUpdate", guildID |-> guildID,
                sessionID |-> sessionID, own |-> (shardUserID = triggerUserID)]
    /\ UNCHANGED <<cfg, callVars, socketVars, heap, trackPos>>

\* the error of the Send is printed, not returned
OnVoiceServerUpdate(guildID, endpoint, token) ==
    /\ ~crashed
    /\ crashed' = node.voiceStatesNil
    /\ last' = [op |-> "OnVoiceServerUpdate", guildID |-> guildID,
                endpoint |-> endpoint, token |-> token,
                sends |-> IF node.voiceStatesNil \/ ~node.voiceStates[guildID].exists
                          THEN <<>>
                          ELSE <<SocketSend(socket, Marshal(serverUpdatePayload(
                                    node.voiceStates[guildID].GuildID,
                                    node.voiceStates[guildID].SessionID,
                                    endpoint, token)))>>]
    /\ UNCHANGED <<cfg, callVars, socketVars, nodeVars>>

(***************************************************************************)
(* Inbound frames.  A JSON string that the code indexes is the sequence of *)
(* its bytes; json.Unmarshal leaves a field the text lacks at its zero     *)
(* value and fails on a text that is not JSON.                             *)
(***************************************************************************)
NotJSON == [invalid |-> TRUE]

Unmarshals(data) == "invalid" \notin DOMAIN data[1]

Field(object, key, zero) == IF key \in DOMAIN object THEN object[key] ELSE zero

\* the event types of recvDataEventPayload.Type
trackStartEvent == "TrackStartEvent"
trackEndEvent == "TrackEndEvent"
trackExceptionEvent == "TrackExceptionEvent"
trackStuckEvent == "TrackStuckEvent"
webSocketClosedEvent == "WebSocketClosedEvent"

\* TrackEndReason and its values
TrackEndReasonFinished == "F"
TrackEndReasonLoadFailed == "L"
TrackEndReasonStopped == "S"
TrackEndReasonReplaced == "R"
TrackEndReasonCleanup == "C"

TrackEndReason(byte) == byte

\* (mutant) an updatePosition that stores nothing
updatePositionDropped(positions, track, position) == positions

\* Track.updatePosition
updatePosition(positions, track, position) == [positions EXCEPT ![track] = position]

\* what handling a frame leaves: the Players, the track positions, the
\* events handed to the func fields, and whether it panicked
Handled(players, positions, events) ==
    [heap |-> players, trackPos |-> positions, events |-> events, panic |-> FALSE]

Fatal(players, positions) ==
    [heap |-> players, trackPos |-> positions, events |-> <<>>, panic |-> TRUE]

\* case "stats"
StatsFrame(n, players, positions, object) ==
    IF "StatsReceived" \notin n.callbacks THEN Handled(players, positions, <<>>)
    ELSE Handled(players, positions, <<[kind |-> "StatsReceived"]>>)

\* case "playerUpdate"
PlayerUpdateFrame(n, players, positions, object) ==
    LET pid == GetPlayer(n, Field(object, "guildId", ""))
        state == Field(object, "state", NoFields)
        moved == IF players[pid].Track # "nil"
                 THEN updatePosition(positions, players[pid].Track,
                                     Field(state, "position", 0))
                 ELSE positions
        stamped == [players EXCEPT ![pid].LastUpdate = TimeUnix(Field(state, "time", 0))]
    IN  IF n.playersNil THEN Fatal(players, positions)
        ELSE IF pid = 0 THEN Handled(players, positions, <<>>)
        ELSE IF "PlayerUpdated" \notin n.callbacks THEN Handled(stamped, moved, <<>>)
        ELSE Handled(stamped, moved,
                     <<[kind |-> "PlayerUpdated", Player |-> pid,
                        Position |-> Field(state, "position", 0),
                        Time |-> Field(state, "time", 0)]>>)

\* the four track events set the Player's State before the func field is
\* looked at; TrackEnd indexes the first byte of the reason
TrackEventFrame(n, players, positions, object, state, callback) ==
    LET pid == GetPlayer(n, Field(object, "guildId", ""))
        set == [players EXCEPT ![pid].State = state]
        reason == Field(object, "reason", <<>>)
    IN  IF n.playersNil THEN Fatal(players, positions)
        ELSE IF pid = 0 THEN Handled(players, positions, <<>>)
        ELSE IF callback \notin n.callbacks THEN Handled(set, positions, <<>>)
        ELSE IF callback # "TrackEnded"
        THEN Handled(set, positions,
                     <<[kind |-> callback, Player |-> pid, Track |-> players[pid].Track]>>)
        ELSE IF reason = <<>> THEN Fatal(set, positions)
        ELSE Handled(set, positions,
                     <<[kind |-> callback, Player |-> pid, Track |-> players[pid].Track,
                        Reason |-> TrackEndReason(reason[1])]>>)

\* case "event": an event type outside the five falls through the switch
EventFrame(n, players, positions, object) ==
    LET type == Field(object, "type", "") IN
    CASE type = trackStartEvent ->
            TrackEventFrame(n, players, positions, object, "Playing", "TrackStarted")
      [] type = trackEndEvent ->
            TrackEventFrame(n, players, positions, object, "Stopped", "TrackEnded")
      [] type = trackExceptionEvent ->
            TrackEventFrame(n, players, positions, object, "Stopped", "TrackException")
      [] type = trackStuckEvent ->
            TrackEventFrame(n, players, positions, object, "Stopped", "TrackStuck")
      [] type = webSocketClosedEvent ->
            IF "WebSocketClosed" \notin n.callbacks THEN Handled(players, positions, <<>>)
            ELSE Handled(players, positions,
                         <<[kind |-> "WebSocketClosed",
                            GuildID |-> Field(object, "guildId", ""),
                            Reason |-> Field(object, "reason", <<>>)]>>)
      [] OTHER -> Handled(players, positions, <<>>)

DataReceived(n, players, positions, data) ==
    IF Len(data) = 0 THEN Fatal(players, positions)
    ELSE IF ~Unmarshals(data) THEN Fatal(players, positions)
    ELSE LET object == data[1]
             op == Field(object, "op", "")
         IN  CASE op = "stats" -> StatsFrame(n, players, positions, object)
               [] op = "playerUpdate" -> PlayerUpdateFrame(n, players, positions, object)
               [] op = "event" -> EventFrame(n, players, positions, object)
               [] OTHER -> Fatal(players, positions)

\* Node.socketDataReceived, called with the bytes of one frame
socketDataReceived(data) ==
    /\ ~crashed
    /\ LET r == DataReceived(node, heap, trackPos, data) IN
        /\ heap' = r.heap
        /\ trackPos' = r.trackPos
        /\ crashed' = r.panic
        /\ last' = [op |-> "socketDataReceived", data |-> data, events |-> r.events]
    /\ UNCHANGED <<cfg, callVars, socketVars, node>>

(***************************************************************************)
(* Socket.readListener.  s.conn.ReadMessage() returns a text frame while   *)
(* the connection is open and (noFrame, nil, err) once it broke or was     *)
(* closed; a close frame from the server comes as such an error, never as  *)
(* a message of type CloseMessage.  One step is one pass of the loop.      *)
(***************************************************************************)
ServerFrames == {[op |-> "stats"], [op |-> "event"]}

ReadMessage(conn) ==
    IF conn = "open"
    THEN {[msgType |-> "TextMessage", data |-> Marshal(frame), err |-> "nil"] :
            frame \in ServerFrames}
    ELSE {[msgType |-> "noFrame", data |-> <<>>, err |-> "ReadError"]}

readListener(read) ==
    /\ ~crashed
    /\ reader.pc = "read"
    /\ Len(reader.reads) < MaxReads
    /\ read \in ReadMessage(socket.conn)
    /\ reader' = IF read.msgType # "CloseMessage"
                 THEN [reader EXCEPT !.pc = "exit", !.reads = Append(@, read)]
                 ELSE [reader EXCEPT !.reads = Append(@, read),
                                     !.goErr = IF read.err # "nil"
                                               THEN Append(@, read.err) ELSE @,
                                     !.goData = Append(@, read.data)]
    /\ last' = [op |-> "readListener", read |-> read]
    /\ UNCHANGED <<cfg, callVars, nodeVars, socket, sendListener, goOnOpen, senders, closer,
                   accepted, wire, crashed>>

(***************************************************************************)
(* Calls running concurrently.  A goroutine in a call executes the call's  *)
(* statements one at a time; the statements of each function are listed in *)
(* the order of its source, one per access to the memory the goroutines    *)
(* share (a field of the Player or of the Node), per lock operation, per   *)
(* Socket.Send and per callback.  A call has ended when its pc is past its *)
(* last statement.                                                         *)
(***************************************************************************)
NotCalling ==
    [op |-> "none", arg |-> <<>>, pid |-> 0, pc |-> 0, made |-> 0, pre |-> <<>>,
     overlapped |-> FALSE, skipped |-> "nil", current |-> "nil", err |-> "none",
     events |-> <<>>, voiceCalls |-> 0]

\* (mutant) a Stop that keeps the Player's lock
StopStepsKeepingLock(guildID, ret) ==
    <<[do |-> "Lock"],
      [do |-> "SetState", to |-> "Stopped"],
      [do |-> "Send", frame |-> playerStopPayload(guildID), ret |-> ret]>>

\* Player.Stop; ret: the result of the Send is returned to the caller
StopSteps(guildID, ret) ==
    <<[do |-> "Lock"],
      [do |-> "SetState", to |-> "Stopped"],
      [do |-> "Unlock"],
      [do |-> "Send", frame |-> playerStopPayload(guildID), ret |-> ret]>>

\* Player.PlayTrack
PlayTrackSteps(guildID, track) ==
    <<[do |-> "CheckTrack", track |-> track],
      [do |-> "Lock"],
      [do |-> "SetState", to |-> "Playing"],
      [do |-> "SetTrack", track |-> track],
      [do |-> "Unlock"],
      [do |-> "Send", frame |-> playerPlayPayload(guildID, track, FALSE, 0, 0, 100, FALSE),
       ret |-> TRUE]>>

\* Player.Play
PlaySteps(guildID, args) ==
    <<[do |-> "CheckTrack", track |-> args.Track],
      [do |-> "Lock"],
      [do |-> "SetState", to |-> IF args.ShouldPause THEN "Paused" ELSE "Playing"],
      [do |-> "Unlock"],
      [do |-> "CheckVolume", volume |-> args.Volume],
      [do |-> "Lock"],
      [do |-> "SetVolume", volume |-> args.Volume],
      [do |-> "SetTrack", track |-> args.Track],
      [do |-> "Unlock"],
      [do |-> "Send",
       frame |-> playerPlayPayload(guildID, args.Track, args.NoReplace, args.StartTime,
                                   args.EndTime, args.Volume, args.ShouldPause),
       ret |-> TRUE]>>

\* Player.Pause (pause = TRUE) and Player.Resume (pause = FALSE)
PauseSteps(guildID, pause) ==
    <<[do |-> "CheckState"],
      [do |-> "Lock"],
      [do |-> "StateByTrack", pause |-> pause],
      [do |-> "Unlock"],
      [do |-> "Send", frame |-> playerPausePayload(guildID, pause), ret |-> TRUE]>>

\* (mutant) a Skip that takes the head of the queue without the lock
SkipStepsUnlocked(guildID, current) ==
    <<[do |-> "CheckState"],
      [do |-> "ReadTrack"],
      [do |-> "Get", else |-> 5 + Len(PlayTrackSteps(guildID, current))],
      [do |-> "Remove"]>>
    \o PlayTrackSteps(guildID, current)
    \o StopSteps(guildID, TRUE)

\* Player.Skip: with an empty queue Get goes on at the Unlock before
\* `return skipped, nil, p.Stop()`; current is the track Get found
SkipSteps(guildID, current) ==
    <<[do |-> "CheckState"],
      [do |-> "Lock"],
      [do |-> "ReadTrack"],
      [do |-> "Get", else |-> 7 + Len(PlayTrackSteps(guildID, current))],
      [do |-> "Remove"],
      [do |-> "Unlock"]>>
    \o PlayTrackSteps(guildID, current)
    \o <<[do |-> "Unlock"]>>
    \o StopSteps(guildID, TRUE)

\* Player.Seek
SeekSteps(guildID, position) ==
    <<[do |-> "CheckState"],
      [do |-> "CheckLength", position |-> position],
      [do |-> "Send", frame |-> playerSeekPayload(guildID, position), ret |-> TRUE]>>

\* Player.UpdateVolume
UpdateVolumeSteps(guildID, volume) ==
    <<[do |-> "Lock"],
      [do |-> "SetVolume", volume |-> volume],
      [do |-> "Unlock"],
      [do |-> "Send", frame |-> playerVolumePayload(guildID, volume), ret |-> TRUE]>>

\* Player.Close up to its return
CloseSteps(guildID) ==
    StopSteps(guildID, FALSE)
    \o <<[do |-> "Lock"],
         [do |-> "Send", frame |-> playerDestroyPayload(guildID), ret |-> FALSE],
         [do |-> "ClearQueue"],
         [do |-> "SetTrack", track |-> "nil"],
         [do |-> "SetState", to |-> "None"],
         [do |-> "Unlock"]>>

\* Node.Join
JoinSteps(guildID, voiceChannelID) ==
    <<[do |-> "CheckConnected"],
      [do |-> "CheckChannel", voiceChannelID |-> voiceChannelID],
      [do |-> "Load", guildID |-> guildID, returnsOn |-> "hit"],
      [do |-> "ConnectVoice"],
      [do |-> "Store", guildID |-> guildID]>>

\* Node.Leave: p.Close() runs in the calling goroutine
LeaveSteps(guildID, playerGuildID) ==
    <<[do |-> "CheckConnected"],
      [do |-> "Load", guildID |-> guildID, returnsOn |-> "miss"]>>
    \o CloseSteps(playerGuildID)
    \o <<[do |-> "Delete", guildID |-> guildID]>>

\* socketDataReceived, the four track events: GetPlayer, the State under the
\* lock, then the func field called with p.Track
TrackEventSteps(object, state, callback) ==
    <<[do |-> "Load", guildID |-> Field(object, "guildId", ""), returnsOn |-> "miss"],
      [do |-> "Lock"],
      [do |-> "SetState", to |-> state],
      [do |-> "Unlock"],
      [do |-> "Callback", callback |-> callback, reason |-> Field(object, "reason", <<>>)]>>

\* socketDataReceived, case "playerUpdate"
PlayerUpdateSteps(object) ==
    <<[do |-> "Load", guildID |-> Field(object, "guildId", ""), returnsOn |-> "miss"],
      [do |-> "UpdatePosition",
       position |-> Field(Field(object, "state", NoFields), "position", 0)],
      [do |-> "SetLastUpdate", time |-> Field(Field(object, "state", NoFields), "time", 0)],
      [do |-> "Callback", callback |-> "PlayerUpdated", reason |-> <<>>]>>

\* socketDataReceived for a frame that reaches a Player
FrameSteps(object) ==
    CASE Field(object, "op", "") = "playerUpdate" -> PlayerUpdateSteps(object)
      [] Field(object, "op", "") = "event" /\ Field(object, "type", "") = trackStartEvent
            -> TrackEventSteps(object, "Playing", "TrackStarted")
      [] Field(object, "op", "") = "event" /\ Field(object, "type", "") = trackEndEvent
            -> TrackEventSteps(object, "Stopped", "TrackEnded")
      [] Field(object, "op", "") = "event" /\ Field(object, "type", "") = trackExceptionEvent
            -> TrackEventSteps(object, "Stopped", "TrackException")
      [] Field(object, "op", "") = "event" /\ Field(object, "type", "") = trackStuckEvent
            -> TrackEventSteps(object, "Stopped", "TrackStuck")
      [] OTHER -> <<>>

\* the GuildID of the Player call k is on
GuildOf(k) == IF k.pid \in 1..Len(heap) THEN heap[k.pid].GuildID ELSE ""

\* the statements of call k
Steps(k) ==
    CASE k.op = "Stop" -> StopSteps(GuildOf(k), TRUE)
      [] k.op = "PlayTrack" -> PlayTrackSteps(GuildOf(k), k.arg)
      [] k.op = "Play" -> PlaySteps(GuildOf(k), k.arg)
      [] k.op = "Pause" -> PauseSteps(GuildOf(k), TRUE)
      [] k.op = "Resume" -> PauseSteps(GuildOf(k), FALSE)
      [] k.op = "Skip" -> SkipSteps(GuildOf(k), k.current)
      [] k.op = "Seek" -> SeekSteps(GuildOf(k), k.arg)
      [] k.op = "UpdateVolume" -> UpdateVolumeSteps(GuildOf(k), k.arg)
      [] k.op = "Close" -> CloseSteps(GuildOf(k)) \o <<[do |-> "Return"]>>
      [] k.op = "Join" -> JoinSteps(k.arg.guildID, k.arg.voiceChannelID)
      [] k.op = "Leave" -> LeaveSteps(k.arg.guildID, GuildOf(k))
      [] k.op = "socketDataReceived" -> FrameSteps(k.arg)
      [] OTHER -> <<>>

Running(k) == k.pc \in 1..Len(Steps(k))

Ended(k) == k.pc > Len(Steps(k))

\* call k goes on at its next statement, or returns err
Advance(k) == [k EXCEPT !.pc = @ + 1]

Finish(k, err) == [k EXCEPT !.pc = Len(Steps(k)) + 1, !.err = err]

\* the statement goroutine c is at
NextIns(c) == Steps(calls[c])[calls[c].pc]

At(c, kinds) ==
    /\ ~crashed
    /\ Running(calls[c])
    /\ NextIns(c).do \in kinds

\* goroutine c enters a call: op on Player pid (0: a call on the Node, or a
\* frame, which has no Player yet).  pre keeps the Player as the call found
\* it; overlapped says that another call ran while this one did.
Begin(c, op, arg, pid) ==
    /\ ~crashed
    /\ ~Running(calls[c])
    /\ calls[c].made < MaxCallsEach
    /\ pid \in 0..Len(heap)
    /\ calls' = [d \in Callers |->
            IF d = c
            THEN [NotCalling EXCEPT !.op = op, !.arg = arg, !.pid = pid, !.pc = 1,
                                    !.made = calls[c].made + 1,
                                    !.pre = IF pid = 0 THEN <<>> ELSE heap[pid],
                                    !.overlapped =
                                        \E e \in Callers \ {c} : Running(calls[e])]
            ELSE IF Running(calls[d]) THEN [calls[d] EXCEPT !.overlapped = TRUE]
            ELSE calls[d]]
    /\ UNCHANGED <<cfg, socketVars, nodeVars, mutex, crashed, last>>

\* p.Lock(): waits while another goroutine holds the Player's lock
Acquire(c) ==
    /\ At(c, {"Lock"})
    /\ mutex[calls[c].pid] = 0
    /\ mutex' = [mutex EXCEPT ![calls[c].pid] = c]
    /\ calls' = [calls EXCEPT ![c] = Advance(@)]
    /\ UNCHANGED <<cfg, socketVars, nodeVars, crashed, last>>

\* p.Unlock()
Release(c) ==
    /\ At(c, {"Unlock"})
    /\ mutex' = [mutex EXCEPT ![calls[c].pid] = 0]
    /\ calls' = [calls EXCEPT ![c] = Advance(@)]
    /\ UNCHANGED <<cfg, socketVars, nodeVars, crashed, last>>

AccessKinds ==
    {"CheckState", "ReadTrack", "Get", "Remove", "SetState", "StateByTrack", "SetTrack",
     "SetVolume", "ClearQueue", "CheckLength", "UpdatePosition", "SetLastUpdate"}

\* one statement that reads or writes the fields of Player p, in call k:
\* the Player, the call and the track positions it leaves
AccessPlayer(ins, p, k, positions) ==
    LET left(q, j) == [p |-> q, k |-> j, positions |-> positions, panic |-> FALSE] IN
    CASE ins.do = "CheckState" ->
            IF p.State = "None" THEN left(p, Finish(k, "PlayerNotReady"))
            ELSE left(p, Advance(k))
      [] ins.do = "ReadTrack" -> left(p, [Advance(k) EXCEPT !.skipped = p.Track])
      [] ins.do = "Get" ->
            IF p.Queue = <<>> THEN left(p, [k EXCEPT !.pc = ins.else])
            ELSE left(p, [Advance(k) EXCEPT !.current = Head(p.Queue)])
      [] ins.do = "Remove" ->
            left([p EXCEPT !.Queue = IF @ = <<>> THEN @ ELSE Tail(@)], Advance(k))
      [] ins.do = "SetState" -> left([p EXCEPT !.State = ins.to], Advance(k))
      [] ins.do = "StateByTrack" ->
            left([p EXCEPT !.State = IF p.Track = "nil" THEN "Stopped"
                                     ELSE IF ins.pause THEN "Paused" ELSE "Playing"],
                 Advance(k))
      [] ins.do = "SetTrack" -> left([p EXCEPT !.Track = ins.track], Advance(k))
      [] ins.do = "SetVolume" -> left([p EXCEPT !.Volume = ins.volume], Advance(k))
      [] ins.do = "ClearQueue" -> left([p EXCEPT !.Queue = <<>>], Advance(k))
      [] ins.do = "CheckLength" ->
            IF p.Track = "nil"
            THEN [p |-> p, k |-> k, positions |-> positions, panic |-> TRUE]
            ELSE IF ins.position > TrackLength(p.Track)
            THEN left(p, Finish(k, "PositionOutOfRange"))
            ELSE left(p, Advance(k))
      [] ins.do = "UpdatePosition" ->
            [p |-> p, k |-> Advance(k), panic |-> FALSE,
             positions |-> IF p.Track = "nil" THEN positions
                           ELSE updatePosition(positions, p.Track, ins.position)]
      [] ins.do = "SetLastUpdate" ->
            left([p EXCEPT !.LastUpdate = TimeUnix(ins.time)], Advance(k))

\* goroutine c executes a statement on its Player's fields; last keeps the
\* statement and whether c held the Player's lock
Access(c) ==
    /\ At(c, AccessKinds)
    /\ LET r == AccessPlayer(NextIns(c), heap[calls[c].pid], calls[c], trackPos) IN
        /\ heap' = [heap EXCEPT ![calls[c].pid] = r.p]
        /\ calls' = [calls EXCEPT ![c] = r.k]
        /\ trackPos' = r.positions
        /\ crashed' = r.panic
    /\ last' = [op |-> "access", by |-> c, call |-> calls[c].op, do |-> NextIns(c).do,
                locked |-> (mutex[calls[c].pid] = c)]
    /\ UNCHANGED <<cfg, socketVars, node, mutex>>

\* p.socket.Send(data): the frame is written when Send accepts it
SendFrame(c) ==
    /\ At(c, {"Send"})
    /\ LET sent == SocketSend(socket, Marshal(NextIns(c).frame)) IN
        /\ wire' = IF SendCheck(socket, sent.data) = "nil"
                   THEN Append(wire, [call |-> c, data |-> sent.data, err |-> sent.err])
                   ELSE wire
        /\ calls' = [calls EXCEPT ![c] =
                        IF NextIns(c).ret THEN Finish(@, sent.err)
                        ELSE [Advance(@) EXCEPT !.err = sent.err]]
    /\ UNCHANGED <<cfg, socket, sendListener, goOnOpen, senders, closer, accepted, reader,
                   nodeVars, mutex, crashed, last>>

RegistryKinds == {"CheckConnected", "Load", "Store", "Delete"}

\* one statement on the Node's fields: n.connected, and Load, Store and
\* Delete of n.players (a nil n.players is dereferenced and panics)
Registry(c) ==
    /\ At(c, RegistryKinds)
    /\ LET ins == NextIns(c)
           k == calls[c]
           pid == GetPlayer(node, ins.guildID)
       IN  CASE ins.do = "CheckConnected" ->
                    /\ calls' = [calls EXCEPT ![c] =
                                    IF node.connected THEN Advance(k)
                                    ELSE Finish(k, "NotConnected")]
                    /\ UNCHANGED <<node, heap, crashed>>
             [] ins.do # "CheckConnected" /\ node.playersNil ->
                    /\ crashed' = TRUE
                    /\ UNCHANGED <<node, heap, calls>>
             [] ins.do = "Load" /\ ~node.playersNil ->
                    /\ calls' = [calls EXCEPT ![c] =
                            IF pid = 0
                            THEN IF ins.returnsOn = "miss" THEN Finish(k, "nil")
                                 ELSE Advance(k)
                            ELSE IF ins.returnsOn = "hit"
                                 THEN [Finish(k, "nil") EXCEPT !.pid = pid]
                                 ELSE [Advance(k) EXCEPT !.pid = pid, !.pre = heap[pid]]]
                    /\ UNCHANGED <<node, heap, crashed>>
             [] ins.do = "Store" /\ ~node.playersNil ->
                    /\ Len(heap) < MaxPlayers
                    /\ heap' = Append(heap, NewPlayer(ins.guildID))
                    /\ node' = Store(node, ins.guildID, Len(heap) + 1)
                    /\ calls' = [calls EXCEPT ![c] =
                                    [Finish(k, "nil") EXCEPT !.pid = Len(heap) + 1]]
                    /\ UNCHANGED crashed
             [] ins.do = "Delete" /\ ~node.playersNil ->
                    /\ node' = Delete(node, ins.guildID)
                    /\ calls' = [calls EXCEPT ![c] = Finish(k, k.err)]
                    /\ UNCHANGED <<heap, crashed>>
    /\ UNCHANGED <<cfg, socketVars, trackPos, mutex, last>>

\* n.ConnectVoice(guildID, channelID, deaf), when the field is set
Voice(c, voiceFails) ==
    /\ At(c, {"ConnectVoice"})
    /\ calls' = [calls EXCEPT ![c] =
            IF "ConnectVoice" \notin node.callbacks THEN Advance(@)
            ELSE IF ConnectVoice(node, voiceFails) # "nil"
            THEN [Finish(@, ConnectVoice(node, voiceFails)) EXCEPT !.voiceCalls = @ + 1]
            ELSE [Advance(@) EXCEPT !.voiceCalls = @ + 1]]
    /\ UNCHANGED <<cfg, socketVars, nodeVars, mutex, crashed, last>>

\* the func field of the Node is called when it is set; the track events
\* read p.Track for it, and TrackEnded indexes the reason
Deliver(c) ==
    /\ At(c, {"Callback"})
    /\ LET ins == NextIns(c)
           k == calls[c]
       IN  IF ins.callback \notin node.callbacks
           THEN /\ calls' = [calls EXCEPT ![c] = Finish(k, "nil")]
                /\ UNCHANGED <<crashed, last>>
           ELSE IF ins.callback = "PlayerUpdated"
           THEN /\ calls' = [calls EXCEPT ![c] =
                        [Finish(k, "nil") EXCEPT !.events =
                            Append(@, [kind |-> ins.callback, Player |-> k.pid])]]
                /\ UNCHANGED <<crashed, last>>
           ELSE /\ last' = [op |-> "access", by |-> c, call |-> k.op, do |-> ins.do,
                            locked |-> (mutex[k.pid] = c)]
                /\ IF ins.callback = "TrackEnded" /\ ins.reason = <<>>
                   THEN crashed' = TRUE /\ UNCHANGED calls
                   ELSE /\ calls' = [calls EXCEPT ![c] =
                                [Finish(k, "nil") EXCEPT !.events =
                                    Append(@, [kind |-> ins.callback, Player |-> k.pid,
                                               Track |-> heap[k.pid].Track])]]
                        /\ UNCHANGED crashed
    /\ UNCHANGED <<cfg, socketVars, nodeVars, mutex>>

LocalKinds == {"CheckTrack", "CheckVolume", "CheckChannel", "Return"}

\* a statement on the call's own arguments and locals
Local(c) ==
    /\ At(c, LocalKinds)
    /\ LET ins == NextIns(c) IN
        calls' = [calls EXCEPT ![c] =
            CASE ins.do = "CheckTrack" ->
                    IF ins.track = "nil" THEN Finish(@, "NilTrack") ELSE Advance(@)
              [] ins.do = "CheckVolume" ->
                    IF VolumeInRange(ins.volume) THEN Advance(@)
                    ELSE Finish(@, "VolumeOutOfRange")
              [] ins.do = "CheckChannel" ->
                    IF ins.voiceChannelID = "" THEN Finish(@, "EmptyChannel")
                    ELSE Advance(@)
              [] ins.do = "Return" -> Finish(@, @.err)]
    /\ UNCHANGED <<cfg, socketVars, nodeVars, mutex, crashed, last>>

\* goroutine c takes a step of the call it is in
Run(c) ==
    \/ Acquire(c) \/ Release(c) \/ Access(c) \/ SendFrame(c) \/ Registry(c)
    \/ Deliver(c) \/ Local(c)
    \/ \E voiceFails \in BOOLEAN : Voice(c, voiceFails)

(***************************************************************************)
(* Initial states: the Socket as NewSocket returns it, no call made yet.   *)
(***************************************************************************)
NoLast == [op |-> "none"]

\* no Send and no Close call made yet, nothing written, no panic
NoCalls ==
    /\ senders = [c \in Senders |-> NoCall]
    /\ closer = [pc |-> "idle", calls |-> 0, returned |-> 0,
                 onConnected |-> FALSE, closedConnected |-> FALSE]
    /\ accepted = <<>>
    /\ wire = <<>>
    /\ reader = IF socket.connected THEN ReaderStarted ELSE ReaderOff
    /\ calls = [c \in Callers |-> NotCalling]
    /\ mutex = [pid \in 1..MaxPlayers |-> 0]
    /\ crashed = FALSE
    /\ last = NoLast

InitWith(configs, s, listener) ==
    /\ cfg \in configs
    /\ node = NewNode({})
    /\ heap = <<>>
    /\ trackPos = [tr \in Tracks |-> 0]
    /\ socket = s
    /\ sendListener = listener
    /\ goOnOpen = (listener.pc # "off")
    /\ NoCalls

ListenerOff == [pc |-> "off", call |-> 0]

CloseStep == CloseBegin \/ CloseChan \/ CloseConn

(***************************************************************************)
(* SpecConnect: Connect and Close on a Socket from NewSocket on, under     *)
(* every configuration and every behaviour of the dialer.                  *)
(***************************************************************************)
InitConnect == InitWith({c \in Configs : ~c.EnableResume}, NewSocket, ListenerOff)

NextConnect ==
    \/ \E script \in DialScripts : Connect(script)
    \/ TransportBreak
    \/ CloseStep

SpecConnect == InitConnect /\ [][NextConnect]_vars

(***************************************************************************)
(* SpecSocket: a Socket from NewSocket on, with one dial per Connect,      *)
(* Close, and NumSenders goroutines calling Send.                          *)
(***************************************************************************)
InitSocket ==
    InitWith({c \in Configs : ~c.EnableResume /\ c.ReconnectAttempts = 0
                              /\ c.ReconnectDelay = 1},
             NewSocket, ListenerOff)

SenderStep ==
    \E c \in Senders :
        \/ \E data \in Payloads(c) : SendBegin(c, data)
        \/ SendOnClosed(c)
        \/ ListenerReceive(c)
        \/ SendReturn(c)

ListenerStep == ListenerWrite \/ ListenerReply \/ ListenerExit

NextSocket ==
    \/ \E script \in {sc \in DialScripts : sc.fails = 0 /\ sc.then = "v3"} :
            Connect(script)
    \/ SenderStep
    \/ ListenerStep
    \/ CloseStep

SpecSocket == InitSocket /\ [][NextSocket]_vars

(***************************************************************************)
(* SpecSend: NumSenders goroutines call Send concurrently on a Socket that *)
(* a first Connect has just connected; nobody calls Close.  The Go         *)
(* scheduler runs every goroutine that can take a step.                    *)
(***************************************************************************)
JustConnected == SocketConnect(NewSocket, [fails |-> 0, then |-> "v3"], 1, <<>>).sock

InitSend ==
    InitWith({c \in Configs : ~c.EnableResume /\ c.ReconnectAttempts = 0
                              /\ c.ReconnectDelay = 1},
             JustConnected, ListenerStarted)

SendStep ==
    \E c \in Senders :
        \/ \E data \in Payloads(c) : SendBegin(c, data)
        \/ ListenerReceive(c)
        \/ SendReturn(c)

ServeStep == ListenerWrite \/ ListenerReply

NextSend == TransportBreak \/ SendStep \/ ServeStep

SpecSend ==
    /\ InitSend
    /\ [][NextSend]_vars
    /\ WF_vars(ServeStep)
    /\ \A c \in Senders : WF_vars(ListenerReceive(c)) /\ WF_vars(SendReturn(c))

(***************************************************************************)
(* SpecRead: the read pump of a Socket from NewSocket on, while the caller *)
(* connects and closes and the connection may break.                       *)
(***************************************************************************)
InitRead ==
    InitWith({c \in Configs : ~c.EnableResume /\ c.ReconnectAttempts = 1
                              /\ c.ReconnectDelay = 1},
             NewSocket, ListenerOff)

NextRead ==
    \/ \E script \in {sc \in DialScripts : sc.fails <= 1 /\ sc.then \in {"v3", "fail"}} :
            Connect(script)
    \/ \E read \in ReadMessage(socket.conn) : readListener(read)
    \/ TransportBreak
    \/ CloseStep

SpecRead == InitRead /\ [][NextRead]_vars

(***************************************************************************)
(* SpecPlayer: one Player, made by NewPlayer on a Socket that is connected *)
(* or was never connected, and every call on it.                           *)
(***************************************************************************)
InitPlayer ==
    /\ cfg \in {c \in Configs : ~c.EnableResume /\ c.ReconnectAttempts = 0
                                /\ c.ReconnectDelay = 1}
    /\ socket \in {NewSocket, JustConnected}
    /\ sendListener = IF socket.connected THEN ListenerStarted ELSE ListenerOff
    /\ goOnOpen = FALSE
    /\ node = NewNode({})
    /\ heap = <<NewPlayer("g1")>>
    /\ trackPos = [tr \in Tracks |-> 0]
    /\ NoCalls

NextPlayer ==
    \/ TransportBreak
    \/ \E args \in PlayArgs : Play(1, args)
    \/ \E track \in Tracks \cup {"nil"} : PlayTrack(1, track)
    \/ Stop(1)
    \/ Pause(1)
    \/ Resume(1)
    \/ \E delay \in {0, 1} : Skip(1, delay)
    \/ \E position \in 0..3 : Seek(1, position)
    \/ \E volume \in {0, 1001} : UpdateVolume(1, volume)
    \/ ClosePlayer(1)
    \/ \E track \in Tracks : QueueAdd(1, track)

SpecPlayer == InitPlayer /\ [][NextPlayer]_vars

(***************************************************************************)
(* Spec: the Node from NewNode on.  The caller connects, joins and leaves  *)
(* guilds, drives the Players it was given, and closes; the on-open        *)
(* goroutine runs when it is scheduled.  The func fields are all set or    *)
(* all left nil.                                                           *)
(***************************************************************************)
Init ==
    /\ cfg \in {c \in Configs : c.ReconnectAttempts = 0 /\ c.ReconnectDelay = 1}
    /\ socket = NewSocket
    /\ sendListener = ListenerOff
    /\ goOnOpen = FALSE
    /\ node \in {NewNode({}), NewNode(Callbacks)}
    /\ heap = <<>>
    /\ trackPos = [tr \in Tracks |-> 0]
    /\ NoCalls

Next ==
    \/ \E script \in {s \in DialScripts : s.fails = 0 /\ s.then \in {"v3", "fail"}} :
            NodeConnect(script)
    \/ socketOnOpen
    \/ NodeClose
    \/ TransportBreak
    \/ \E g \in Guilds, ch \in Channels, voiceFails \in BOOLEAN : Join(g, ch, voiceFails)
    \/ \E g \in Guilds : Leave(g)
    \/ \E pid \in 1..MaxPlayers : PlayTrack(pid, "t1")
    \/ \E pid \in 1..MaxPlayers : QueueAdd(pid, "t2")

Spec == Init /\ [][Next]_vars

(***************************************************************************)
(* SpecFrames: a connected Node whose on-open goroutine has run, handling  *)
(* the frames the server sends while the caller joins, leaves and plays.   *)
(***************************************************************************)
FINISHED == <<"F", "I", "N", "I", "S", "H", "E", "D">>
LOAD_FAILED == <<"L", "O", "A", "D", "_", "F", "A", "I", "L", "E", "D">>
STOPPED == <<"S", "T", "O", "P", "P", "E", "D">>
REPLACED == <<"R", "E", "P", "L", "A", "C", "E", "D">>
CLEANUP == <<"C", "L", "E", "A", "N", "U", "P">>

Reasons == {FINISHED, LOAD_FAILED, STOPPED, REPLACED, CLEANUP, <<>>}

\* the state objects of the playerUpdate frames: position, and time in seconds
PlayerStates == {[position |-> 1, time |-> 2], [position |-> 2, time |-> 1]}

InFrames ==
    {[op |-> "stats"], [op |-> "ready"], NotJSON}
    \cup {[op |-> "playerUpdate", guildId |-> g, state |-> state] :
            g \in Guilds, state \in PlayerStates}
    \cup {[op |-> "event", guildId |-> g, type |-> type] :
            g \in Guilds,
            type \in {trackStartEvent, trackEndEvent, trackExceptionEvent,
                      trackStuckEvent, webSocketClosedEvent, "PlayerPauseEvent"}}
    \cup {[op |-> "event", guildId |-> g, type |-> trackEndEvent, reason |-> reason] :
            g \in Guilds, reason \in Reasons}

InitFrames ==
    /\ cfg \in {c \in Configs : ~c.EnableResume /\ c.ReconnectAttempts = 0
                                /\ c.ReconnectDelay = 1}
    /\ socket = JustConnected
    /\ sendListener = ListenerStarted
    /\ goOnOpen = FALSE
    /\ node \in {[NewNode(callbacks) EXCEPT !.connected = TRUE] :
                    callbacks \in {{}, Callbacks}}
    /\ heap = <<>>
    /\ trackPos = [tr \in Tracks |-> 0]
    /\ NoCalls

NextFrames ==
    \/ \E g \in Guilds : Join(g, "ch", FALSE)
    \/ \E g \in Guilds : Leave(g)
    \/ \E pid \in 1..MaxPlayers : PlayTrack(pid, "t1")
    \/ \E data \in {<<>>} \cup {Marshal(frame) : frame \in InFrames} :
            socketDataReceived(data)

SpecFrames == InitFrames /\ [][NextFrames]_vars

(***************************************************************************)
(* SpecVoice: the voice events forwarded to a Node that is connected or    *)
(* was never connected, until it is closed.                                *)
(***************************************************************************)
Users == {"u1", "u2"}
Sessions == {"s1", "s2"}
Endpoints == {"e1", "e2"}
Tokens == {"k1"}

InitVoice ==
    /\ cfg \in {c \in Configs : ~c.EnableResume /\ c.ReconnectAttempts = 0
                                /\ c.ReconnectDelay = 1}
    /\ socket \in {NewSocket, JustConnected}
    /\ sendListener = IF socket.connected THEN ListenerStarted ELSE ListenerOff
    /\ goOnOpen = FALSE
    /\ node = [NewNode({}) EXCEPT !.connected = socket.connected]
    /\ heap = <<>>
    /\ trackPos = [tr \in Tracks |-> 0]
    /\ NoCalls

NextVoice ==
    \/ \E user \in Users, g \in Guilds, session \in Sessions :
            OnVoiceStateUpdate("u1", user, g, session)
    \/ \E g \in Guilds, endpoint \in Endpoints, token \in Tokens :
            OnVoiceServerUpdate(g, endpoint, token)
    \/ TransportBreak
    \/ NodeClose

SpecVoice == InitVoice /\ [][NextVoice]_vars

(***************************************************************************)
(* SpecJoin: NumCallers goroutines call Join and Leave on a connected Node *)
(* whose registry is empty, each statement of a call a step of its own.     *)
(***************************************************************************)
InitJoin ==
    /\ cfg \in {c \in Configs : ~c.EnableResume /\ c.ReconnectAttempts = 0
                                /\ c.ReconnectDelay = 1}
    /\ socket = JustConnected
    /\ sendListener = ListenerStarted
    /\ goOnOpen = FALSE
    /\ node \in {[NewNode(callbacks) EXCEPT !.connected = TRUE] :
                    callbacks \in {{}, Callbacks}}
    /\ heap = <<>>
    /\ trackPos = [tr \in Tracks |-> 0]
    /\ NoCalls

NextJoin ==
    \E c \in Callers :
        \/ \E ch \in Channels :
                Begin(c, "Join", [guildID |-> "g1", voiceChannelID |-> ch], 0)
        \/ Begin(c, "Leave", [guildID |-> "g1"], 0)
        \/ Registry(c)
        \/ Local(c)
        \/ \E voiceFails \in BOOLEAN : Voice(c, voiceFails)
        \/ Acquire(c)
        \/ Access(c)
        \/ Release(c)
        \/ SendFrame(c)

SpecJoin == InitJoin /\ [][NextJoin]_vars

(***************************************************************************)
(* The Players a caller may hold after Join and the calls it made so far,  *)
(* and a connected Node with one of them registered for guild g1.          *)
(***************************************************************************)
HeldPlayers ==
    {[NewPlayer("g1") EXCEPT !.State = held[1], !.Track = held[2], !.Queue = queue] :
        held \in {<<"None", "nil">>, <<"Stopped", "nil">>, <<"Playing", "t1">>,
                  <<"Paused", "t1">>, <<"Stopped", "t1">>},
        queue \in {<<>>, <<"t2">>, <<"t2", "t1">>}}

InitHeld(players) ==
    /\ cfg \in {c \in Configs : ~c.EnableResume /\ c.ReconnectAttempts = 0
                                /\ c.ReconnectDelay = 1}
    /\ socket = JustConnected
    /\ sendListener = ListenerStarted
    /\ goOnOpen = FALSE
    /\ node \in {[NewNode(callbacks) EXCEPT !.connected = TRUE, !.players["g1"] = 1] :
                    callbacks \in {{}, Callbacks}}
    /\ heap \in {<<p>> : p \in players}
    /\ trackPos = [tr \in Tracks |-> 0]
    /\ NoCalls

(***************************************************************************)
(* SpecStopEnd: the caller's Stop and the handling of a TrackEnd frame for *)
(* the same Player, in two goroutines that the scheduler both runs.        *)
(***************************************************************************)
TrackEndFrames ==
    {[op |-> "event", guildId |-> "g1", type |-> trackEndEvent, reason |-> reason] :
        reason \in {FINISHED, STOPPED}}

InitStopEnd == InitHeld({p \in HeldPlayers : Len(p.Queue) <= 1})

NextStopEnd ==
    \/ calls[1].made = 0 /\ Begin(1, "Stop", <<>>, 1)
    \/ \E frame \in TrackEndFrames :
            calls[2].made = 0 /\ Begin(2, "socketDataReceived", frame, 0)
    \/ \E c \in Callers :
            \/ Registry(c)
            \/ Acquire(c)
            \/ Access(c)
            \/ Release(c)
            \/ SendFrame(c)
            \/ Deliver(c)

SpecStopEnd ==
    /\ InitStopEnd
    /\ [][NextStopEnd]_vars
    /\ \A c \in Callers : WF_vars(Run(c))

(***************************************************************************)
(* SpecSkips: NumCallers goroutines call Skip on the same Player, again    *)
(* and again.                                                              *)
(***************************************************************************)
InitSkips == InitHeld(HeldPlayers)

NextSkips ==
    \E c \in Callers :
        \/ Begin(c, "Skip", 0, 1)
        \/ Acquire(c)
        \/ Access(c)
        \/ Release(c)
        \/ Local(c)
        \/ SendFrame(c)

SpecSkips == InitSkips /\ [][NextSkips]_vars

(***************************************************************************)
(* SpecRace: one goroutine makes a call on a Player while another handles  *)
(* a frame for its guild.                                                  *)
(***************************************************************************)
RaceFrames ==
    {[op |-> "playerUpdate", guildId |-> "g1", state |-> [position |-> 1, time |-> 2]],
     [op |-> "event", guildId |-> "g1", type |-> trackStartEvent],
     [op |-> "event", guildId |-> "g1", type |-> trackEndEvent, reason |-> FINISHED]}

RaceCalls ==
    {<<"Stop", <<>>>>, <<"Pause", <<>>>>, <<"Resume", <<>>>>, <<"Skip", 0>>,
     <<"Seek", 1>>, <<"UpdateVolume", 50>>, <<"Close", <<>>>>, <<"PlayTrack", "t2">>}
    \cup {<<"Play", [DefaultPlay("t2") EXCEPT !.Volume = volume]>> : volume \in {100, 1001}}

InitRace == InitHeld({p \in HeldPlayers : Len(p.Queue) <= 1})

NextRace ==
    \/ \E call \in RaceCalls : calls[1].made = 0 /\ Begin(1, call[1], call[2], 1)
    \/ \E frame \in RaceFrames :
            calls[2].made = 0 /\ Begin(2, "socketDataReceived", frame, 0)
    \/ \E c \in Callers :
            \/ Registry(c)
            \/ Acquire(c)
            \/ Access(c)
            \/ Release(c)
            \/ Local(c)
            \/ SendFrame(c)
            \/ Deliver(c)

SpecRace == InitRace /\ [][NextRace]_vars

(***************************************************************************)
(* SpecOrder: two event frames for the same guild, handled as the loop of  *)
(* readListener hands them on: `go s.DataReceived(data)` per frame, in the *)
(* order received, each in a goroutine of its own.                         *)
(***************************************************************************)
OrderFrames ==
    {[op |-> "event", guildId |-> "g1", type |-> type] :
        type \in {trackStartEvent, trackExceptionEvent, trackStuckEvent}}
    \cup {[op |-> "event", guildId |-> "g1", type |-> trackEndEvent, reason |-> FINISHED]}

InitOrder == InitHeld({p \in HeldPlayers : Len(p.Queue) <= 1})

\* goroutine 1 is started for the frame received first, goroutine 2 for the
\* one received second
NextOrder ==
    \/ \E frame \in OrderFrames :
            calls[1].made = 0 /\ Begin(1, "socketDataReceived", frame, 0)
    \/ \E frame \in OrderFrames :
            calls[1].made = 1 /\ calls[2].made = 0
                /\ Begin(2, "socketDataReceived", frame, 0)
    \/ \E c \in Callers :
            \/ Registry(c)
            \/ Acquire(c)
            \/ Access(c)
            \/ Release(c)
            \/ Deliver(c)

SpecOrder == InitOrder /\ [][NextOrder]_vars

(***************************************************************************)
(*                              THE CLAIMS                                 *)
(***************************************************************************)
Range(seq) == {seq[i] : i \in 1..Len(seq)}

Rejections == {"NotConnected", "EmptyPayload"}

\* the writes the transport saw for goroutine c's call
WritesOf(c) == {i \in 1..Len(wire) : wire[i].call = c}

(***************************************************************************)
(* C7 (SpecSend).  Concurrent Send calls on a connected Socket: the        *)
(* transport sees the payloads whole, once each, in the order sendListener *)
(* accepted them; a call that returned got the result of its own write;    *)
(* when all accepted calls have returned there are as many writes as       *)
(* accepted calls; and every call that reached the serializer returns.     *)
(***************************************************************************)
C7_WireFollowsAccepted ==
    /\ Len(wire) <= Len(accepted)
    /\ Len(accepted) - Len(wire) = (IF sendListener.pc = "write" THEN 1 ELSE 0)
    /\ \A i \in 1..Len(wire) :
            /\ wire[i].call = accepted[i]
            /\ wire[i].data = senders[accepted[i]].data
    /\ \A i, j \in 1..Len(accepted) : accepted[i] = accepted[j] => i = j

C7_OwnResult ==
    \A c \in Senders :
        /\ Len(senders[c].errChan) <= 1
        /\ senders[c].pc = "done" =>
            /\ senders[c].errChan = <<>>
            /\ IF c \in Range(accepted)
               THEN \E i \in 1..Len(wire) :
                        /\ WritesOf(c) = {i}
                        /\ senders[c].err = wire[i].err
               ELSE senders[c].err \in Rejections

C7_ConcurrentSend ==
    /\ [](C7_WireFollowsAccepted /\ C7_OwnResult)
    /\ \A c \in Senders : (senders[c].pc = "offer") ~> (senders[c].pc = "done")

\* all the calls were accepted, the last goroutine first, and have returned;
\* the first write succeeded and the last failed
C7_Witness ==
    /\ \A c \in Senders : senders[c].pc = "done" /\ c \in Range(accepted)
    /\ accepted[1] = NumSenders
    /\ Len(wire) = NumSenders
    /\ wire[1].err = "nil"
    /\ senders[accepted[NumSenders]].err = "WriteError"

(***************************************************************************)
(* C8 (SpecConnect).  A Connect call during which every dial fails makes   *)
(* exactly ReconnectAttempts retries, sleeping k * ReconnectDelay before   *)
(* the k-th, and returns the dial error with the Socket disconnected --    *)
(* whatever Connect calls were made before on the same Socket.             *)
(***************************************************************************)
\* the last call was a Connect that dialed and saw every dial fail
AllDialsFailed ==
    /\ last.op = "Connect"
    /\ last.script.then = "fail"
    /\ last.pre.conn = "nil"

BackoffAsConfigured ==
    /\ Len(last.waits) = cfg.ReconnectAttempts
    /\ \A k \in 1..Len(last.waits) : last.waits[k] = k * cfg.ReconnectDelay
    /\ last.dials = cfg.ReconnectAttempts + 1
    /\ last.err = "DialError"
    /\ ~socket.connected
    /\ socket.conn = "nil"

C8_RetriesOnEveryConnect == AllDialsFailed => BackoffAsConfigured

(***************************************************************************)
(* C9 (SpecSocket).  Send on a Socket that is not connected returns        *)
(* NotConnected, Send of no bytes on a connected one returns EmptyPayload; *)
(* neither call reaches sendListener or the transport, then or later.      *)
(***************************************************************************)
C9_Rejects(c) ==
    (senders[c].pc = "idle" /\ senders'[c].pc # "idle") =>
        /\ ~socket.connected =>
            /\ senders'[c].pc = "done"
            /\ senders'[c].err = "NotConnected"
        /\ (socket.connected /\ Len(senders'[c].data) = 0) =>
            /\ senders'[c].pc = "done"
            /\ senders'[c].err = "EmptyPayload"
        /\ senders'[c].pc = "done" => (accepted' = accepted /\ wire' = wire)

C9_NeverWritten ==
    \A c \in Senders :
        senders[c].err \in Rejections => (c \notin Range(accepted) /\ WritesOf(c) = {})

C9_SendRejected ==
    /\ [][\A c \in Senders : C9_Rejects(c)]_vars
    /\ []C9_NeverWritten

\* one call was refused for want of a connection, one for want of bytes,
\* and one was written
C9_Witness ==
    \E c1, c2, c3 \in Senders :
        /\ senders[c1].err = "NotConnected" /\ senders[c1].data # <<>>
        /\ senders[c2].err = "EmptyPayload"
        /\ WritesOf(c3) # {}

(***************************************************************************)
(* C10 (SpecSocket).  Once a Close call made on a connected Socket has     *)
(* returned, the Socket is disconnected and every Send call begun later    *)
(* returns NotConnected; nothing of it is written.                         *)
(***************************************************************************)
C10_SendAfterClose ==
    /\ closer.closedConnected => ~socket.connected
    /\ \A c \in Senders :
        (senders[c].afterClose /\ senders[c].pc # "idle") =>
            /\ senders[c].pc = "done"
            /\ senders[c].err = "NotConnected"
            /\ c \notin Range(accepted)
            /\ WritesOf(c) = {}

\* a call with bytes to send, begun after Close returned, was refused,
\* and a call made before the Close had been written
C10_Witness ==
    /\ closer.closedConnected
    /\ \E c1, c2 \in Senders :
        /\ senders[c1].afterClose
        /\ senders[c1].data # <<>>
        /\ senders[c1].err = "NotConnected"
        /\ WritesOf(c2) # {}

(***************************************************************************)
(* Node.Join and Node.Leave (Spec).  A Node is taken as connected while    *)
(* its flag is set and its registry has not been dropped by Close.         *)
(***************************************************************************)
Connected == node.connected /\ ~node.playersNil

NonEmptyChannels == Channels \ {""}

\* a Join of guild g that finds g's Player registered returns that Player,
\* makes no ConnectVoice call and leaves the Node and every Player as it was
C1_SecondJoin(g) ==
    \A ch \in NonEmptyChannels, voiceFails \in BOOLEAN :
        (Join(g, ch, voiceFails) /\ Connected /\ node.players[g] # 0)
            => /\ last'.err = "nil"
               /\ last'.player = node.players[g]
               /\ last'.voiceCalls = 0
               /\ UNCHANGED <<node, heap>>

\* the Player a Join returns is the one it leaves registered for the guild
C1_JoinRegisters(g) ==
    \A ch \in NonEmptyChannels, voiceFails \in BOOLEAN :
        (Join(g, ch, voiceFails) /\ Connected /\ last'.err = "nil")
            => last'.player # 0 /\ node'.players[g] = last'.player

\* a guild's registered Player is replaced or removed by Leave or Close only
C1_KeptUntilLeave(g) ==
    (node.players[g] # 0 /\ node'.players[g] # node.players[g])
        => Leave(g) \/ NodeClose

\* C1: on a connected Node, two successive Join calls for a guild with a
\* non-empty channel and no Leave in between return the same Player: the
\* first registers the Player it returns, the entry stays until a Leave, and
\* the second returns the entry without calling ConnectVoice and without
\* replacing or modifying the Player.
C1_JoinIdempotent ==
    [][\A g \in Guilds : C1_SecondJoin(g) /\ C1_JoinRegisters(g) /\ C1_KeptUntilLeave(g)]_vars

\* a second Join, with ConnectVoice set, returned a Player that is playing
C1_Witness ==
    /\ last.op = "Join" /\ last.err = "nil" /\ last.voiceCalls = 0
    /\ "ConnectVoice" \in node.callbacks
    /\ Connected
    /\ heap[last.player].State = "Playing"

\* Leave of a guild without a Player: no error, nothing sent, nothing changed
C2_LeaveNothing(g) ==
    (Leave(g) /\ Connected /\ node.players[g] = 0)
        => /\ last'.err = "nil" /\ last'.sends = <<>>
           /\ UNCHANGED <<node, heap, trackPos, socketVars, crashed>>

\* Leave of a guild with a Player: the entry is gone
C2_LeaveRemoves(g) ==
    (Leave(g) /\ Connected /\ node.players[g] # 0) => node'.players[g] = 0

\* a Join of a guild without a Player that succeeds registers a Player that
\* did not exist before, in state None, without track, with an empty queue
C2_JoinFresh(g) ==
    \A ch \in NonEmptyChannels, voiceFails \in BOOLEAN :
        (Join(g, ch, voiceFails) /\ Connected /\ node.players[g] = 0 /\ last'.err = "nil")
            => /\ last'.player \notin 1..Len(heap)
               /\ last'.player \in 1..Len(heap')
               /\ node'.players[g] = last'.player
               /\ heap'[last'.player].GuildID = g
               /\ heap'[last'.player].State = "None"
               /\ heap'[last'.player].Track = "nil"
               /\ heap'[last'.player].Queue = <<>>
               /\ \A pid \in 1..Len(heap) : heap'[pid] = heap[pid]

\* a guild without a Player gets one by Join only
C2_AbsentUntilJoin(g) ==
    (node.players[g] = 0 /\ node'.players[g] # 0)
        => \E ch \in NonEmptyChannels, voiceFails \in BOOLEAN : Join(g, ch, voiceFails)

\* C2: on a connected Node, Leave for a guild with no registered Player
\* returns no error and changes nothing; Leave for a guild with a registered
\* Player removes it from the registry, so that the next Join for the guild
\* registers a new Player, a different instance, whose state is None, whose
\* track is absent and whose queue is empty.
C2_LeaveThenJoin ==
    [][\A g \in Guilds : /\ C2_LeaveNothing(g) /\ C2_LeaveRemoves(g)
                         /\ C2_JoinFresh(g) /\ C2_AbsentUntilJoin(g)]_vars

\* a guild was joined, left and joined again: its two Players
C2_Witness ==
    /\ last.op = "Join" /\ last.err = "nil" /\ last.player = 2
    /\ Connected
    /\ heap[1].GuildID = last.guildID /\ heap[2].GuildID = last.guildID
    /\ node.players[last.guildID] = 2

(***************************************************************************)
(* Player.Play and Player.Skip (SpecPlayer)                                *)
(***************************************************************************)
PlayFrames(sends) == {i \in 1..Len(sends) : sends[i].data[1].op = "play"}

\* C3: Play with a track and a volume below 0 or above 1000 returns the range
\* error and makes no Send; Play with a track and a volume in 0..1000, 0 and
\* 1000 included, on a connected Socket returns no range error and makes
\* exactly one Send, of a play frame.
C3_PlayVolumeRange ==
    (last.op = "Play" /\ last.args.Track # "nil")
        => /\ (last.args.Volume < 0 \/ last.args.Volume > 1000)
                => /\ last.result.err = "VolumeOutOfRange"
                   /\ last.result.sends = <<>>
           /\ (last.args.Volume >= 0 /\ last.args.Volume <= 1000 /\ last.connected)
                => /\ last.result.err # "VolumeOutOfRange"
                   /\ Len(last.result.sends) = 1
                   /\ PlayFrames(last.result.sends) = {1}

\* Play with volume 1000 went out on a connected Socket
C3_Witness ==
    /\ last.op = "Play" /\ last.args.Track # "nil" /\ last.args.Volume = 1000
    /\ last.connected
    /\ last.result.err = "nil"
    /\ Len(last.result.sends) = 1

\* C4: Skip on a Player whose state is not None and whose queue is empty sets
\* the state to Stopped, sends one stop frame and no play frame, returns no
\* next track, and no error when the send succeeded; the queue stays empty.
C4_SkipEmptyQueue ==
    (last.op = "Skip" /\ last.pre.State # "None" /\ last.pre.Queue = <<>>)
        => /\ heap[last.pid].State = "Stopped"
           /\ heap[last.pid].Queue = <<>>
           /\ Len(last.result.sends) = 1
           /\ last.result.sends[1].data[1].op = "stop"
           /\ last.result.current = "nil"
           /\ last.result.sends[1].err = "nil" => last.result.err = "nil"

\* Skip of a playing Player with an empty queue, the stop frame written
C4_Witness ==
    /\ last.op = "Skip" /\ last.pre.State = "Playing" /\ last.pre.Queue = <<>>
    /\ last.pre.Track # "nil"
    /\ last.result.err = "nil"
    /\ last.result.skipped = last.pre.Track

(***************************************************************************)
(* Inbound frames (SpecFrames)                                             *)
(***************************************************************************)
\* the frame last handled is a JSON object of this op for a guild whose
\* Player is registered
FrameFor(op) ==
    /\ last.op = "socketDataReceived"
    /\ Len(last.data) = 1
    /\ "op" \in DOMAIN last.data[1]
    /\ last.data[1].op = op
    /\ last.data[1].guildId \in Guilds
    /\ node.players[last.data[1].guildId] # 0

FramePlayer == node.players[last.data[1].guildId]

\* the reason a TrackEnd frame encodes: F, L, S, R or C, its first byte
ReasonOf(frame) ==
    IF "reason" \in DOMAIN frame /\ frame.reason # <<>> THEN frame.reason[1] ELSE "none"

\* C5: for every event frame of type TrackEnd addressed to a guild with a
\* registered Player, the Player's state becomes Stopped and, when TrackEnded
\* is set, exactly one TrackEnded event is delivered, carrying the reason the
\* frame encodes; handling the frame never panics, whatever its reason holds.
C5_TrackEnd ==
    (FrameFor("event") /\ last.data[1].type = "TrackEndEvent")
        => /\ ~crashed
           /\ heap[FramePlayer].State = "Stopped"
           /\ "TrackEnded" \in node.callbacks
                => /\ Len(last.events) = 1
                   /\ last.events[1].kind = "TrackEnded"
                   /\ last.events[1].Player = FramePlayer
                   /\ last.events[1].Reason = ReasonOf(last.data[1])

\* C6: for every playerUpdate frame with position P addressed to a guild
\* with a registered Player that has a current track, the track's position
\* becomes P and the Player's LastUpdate the frame's time, with or without a
\* subscriber; one PlayerUpdated event is delivered when PlayerUpdated is
\* set and none otherwise.
C6_PlayerUpdate ==
    (FrameFor("playerUpdate") /\ heap[FramePlayer].Track # "nil")
        => /\ ~crashed
           /\ trackPos[heap[FramePlayer].Track] = last.data[1].state.position
           /\ ~heap[FramePlayer].LastUpdate.isZero
           /\ heap[FramePlayer].LastUpdate.unix = last.data[1].state.time
           /\ IF "PlayerUpdated" \in node.callbacks
              THEN /\ Len(last.events) = 1
                   /\ last.events[1].kind = "PlayerUpdated"
                   /\ last.events[1].Player = FramePlayer
              ELSE last.events = <<>>

\* a playerUpdate moved a playing track to position 2 without a subscriber
C6_Witness ==
    /\ FrameFor("playerUpdate")
    /\ heap[FramePlayer].Track # "nil"
    /\ last.data[1].state.position = 2
    /\ trackPos[heap[FramePlayer].Track] = 2
    /\ node.callbacks = {}

(***************************************************************************)
(* The read pump (SpecRead)                                                *)
(***************************************************************************)
\* the reads that returned a frame, and those that returned an error
FramesRead == SelectSeq(reader.reads, LAMBDA read : read.err = "nil")

FailedReads == SelectSeq(reader.reads, LAMBDA read : read.err # "nil")

\* C11: every frame the read pump receives on an established connection is
\* passed to DataReceived exactly once, in the order received, and the pump
\* goes on reading after each text frame: it stops only after a read failed.
C11_ReadPump ==
    /\ Len(reader.goData) = Len(FramesRead)
    /\ \A i \in 1..Len(FramesRead) : reader.goData[i] = FramesRead[i].data
    /\ (reader.pc = "exit") => (reader.reads[Len(reader.reads)].err # "nil")

\* C20: when a read on an established connection fails, ErrorReceived is
\* called with the error and DataReceived is not called for that read; no
\* reconnection is attempted: a later Connect dials nothing and leaves the
\* attempt counter as it was.
C20_ReadError ==
    /\ Len(reader.goErr) = Len(FailedReads)
    /\ \A i \in 1..Len(FailedReads) : reader.goErr[i] = FailedReads[i].err
    /\ Len(reader.goData) <= Len(FramesRead)
    /\ (FailedReads # <<>>) => (socket.conn # "open")
    /\ (FailedReads # <<>> /\ last.op = "Connect")
            => /\ last.dials = 0
               /\ socket.connectionAttempts = last.pre.connectionAttempts

(***************************************************************************)
(* Connect against a server of another version (SpecConnect)               *)
(***************************************************************************)
\* the last Connect dialed, and the dial it ended on reported another version
AnsweredOtherVersion ==
    /\ last.op = "Connect"
    /\ last.dials >= 1
    /\ last.pre.conn = "nil"
    /\ Dial(last.script, last.dials) = "v2"

\* C12: when the dial succeeds but the server reports a version other than
\* 3, Connect returns the version error and the Socket stays disconnected:
\* connected is false, no conn is stored, neither sendListener nor
\* readListener is started and OnOpen is not called.
C12_VersionMismatch ==
    AnsweredOtherVersion
        => /\ last.err = "VersionMismatch"
           /\ ~socket.connected
           /\ socket.conn = "nil"
           /\ sendListener = ListenerOff
           /\ reader = ReaderOff
           /\ ~goOnOpen

\* a Connect that met the other version on its second dial
C12_Witness ==
    /\ AnsweredOtherVersion
    /\ last.dials = 2
    /\ last.err = "VersionMismatch"

(***************************************************************************)
(* Pause, Resume, Close and Seek of a Player (SpecPlayer)                  *)
(***************************************************************************)
\* C13: Pause and Resume on a Player whose state is None return
\* PlayerNotReady, leave the Player as it was and send nothing; in any other
\* state they set the state to Paused (Pause) or Playing (Resume) when a
\* track is loaded and to Stopped when none is, and send exactly one pause
\* frame, its flag true for Pause and false for Resume.
C13_PauseResume ==
    (last.op \in {"Pause", "Resume"})
        => IF last.pre.State = "None"
           THEN /\ last.result.err = "PlayerNotReady"
                /\ heap[last.pid] = last.pre
                /\ last.result.sends = <<>>
           ELSE /\ heap[last.pid].State =
                        IF last.pre.Track = "nil" THEN "Stopped"
                        ELSE IF last.op = "Pause" THEN "Paused" ELSE "Playing"
                /\ Len(last.result.sends) = 1
                /\ last.result.sends[1].data[1].op = "pause"
                /\ last.result.sends[1].data[1].pause = (last.op = "Pause")

\* Resume of a paused Player with a track, the pause frame written
C13_Witness ==
    /\ last.op = "Resume" /\ last.pre.State = "Paused" /\ last.pre.Track # "nil"
    /\ heap[last.pid].State = "Playing"
    /\ last.result.err = "nil"

\* C14: after Player.Close returns, from any state, the Player's state is
\* None, its track absent and its queue empty; on a connected Socket the call
\* sends a stop frame and then a destroy frame for the Player's guild, and
\* no other frame.
C14_PlayerClose ==
    (last.op = "Close")
        => /\ heap[last.pid].State = "None"
           /\ heap[last.pid].Track = "nil"
           /\ heap[last.pid].Queue = <<>>
           /\ last.connected
                => /\ Len(last.result.sends) = 2
                   /\ last.result.sends[1].data[1].op = "stop"
                   /\ last.result.sends[1].data[1].guildId = last.pre.GuildID
                   /\ last.result.sends[2].data[1].op = "destroy"
                   /\ last.result.sends[2].data[1].guildId = last.pre.GuildID

\* Close of a playing Player with a queue, both frames written
C14_Witness ==
    /\ last.op = "Close" /\ last.pre.State = "Playing" /\ last.pre.Queue # <<>>
    /\ last.connected
    /\ last.result.err = "nil"
    /\ last.result.sends[1].err = "nil"

\* C15: in every Player state Seek returns PlayerNotReady when the state is
\* None, PositionOutOfRange when the position exceeds the track's length, and
\* otherwise sends exactly one seek frame; it returns to the caller in every
\* case, also with a state other than None and no track, and leaves the
\* Player's state, track, queue and volume as they were.
C15_Seek ==
    (last.op = "Seek")
        => /\ ~last.result.panic
           /\ ~crashed
           /\ heap[last.pid] = last.pre
           /\ IF last.pre.State = "None"
              THEN last.result.err = "PlayerNotReady" /\ last.result.sends = <<>>
              ELSE IF last.pre.Track # "nil" /\ last.args > TrackLength(last.pre.Track)
              THEN last.result.err = "PositionOutOfRange" /\ last.result.sends = <<>>
              ELSE /\ Len(last.result.sends) = 1
                   /\ last.result.sends[1].data[1].op = "seek"

(***************************************************************************)
(* The errors of Node.Join (Spec)                                          *)
(***************************************************************************)
\* the Join returned no Player and left the registry and the Players alone
C16_NothingJoined == last'.player = 0 /\ UNCHANGED <<node, heap>>

C16_JoinFails(g) ==
    \A ch \in Channels, voiceFails \in BOOLEAN :
        Join(g, ch, voiceFails)
            => /\ ~node.connected
                    => last'.err = "NotConnected" /\ C16_NothingJoined
               /\ (node.connected /\ ch = "")
                    => last'.err = "EmptyChannel" /\ C16_NothingJoined
               /\ (Connected /\ ch # "" /\ node.players[g] = 0
                        /\ "ConnectVoice" \in node.callbacks /\ voiceFails)
                    => last'.err = "VoiceError" /\ C16_NothingJoined

\* C16: Join returns NotConnected when the Node is not connected, the
\* channel error when the channel id is empty, and ConnectVoice's error when
\* ConnectVoice fails for a guild with no Player; in each case no Player is
\* returned and the registry is unchanged.
C16_JoinErrors == [][\A g \in Guilds : C16_JoinFails(g)]_vars

\* ConnectVoice failed for a guild while the other guild has a Player
C16_Witness ==
    /\ last.op = "Join" /\ last.err = "VoiceError" /\ last.voiceCalls = 1
    /\ Connected
    /\ node.players[last.guildID] = 0
    /\ \E g \in Guilds : node.players[g] # 0

(***************************************************************************)
(* Frames of an unknown kind (SpecFrames)                                  *)
(***************************************************************************)
\* the frame last handled is a JSON object with an op
ObjectHandled ==
    /\ last.op = "socketDataReceived"
    /\ Len(last.data) = 1
    /\ "op" \in DOMAIN last.data[1]

UnknownOp == last.data[1].op \notin {"stats", "playerUpdate", "event"}

UnknownEventType ==
    /\ last.data[1].op = "event"
    /\ last.data[1].type \notin {"TrackStartEvent", "TrackEndEvent", "TrackExceptionEvent",
                                 "TrackStuckEvent", "WebSocketClosedEvent"}

\* C17: a frame whose op is none of stats, playerUpdate, event, and an event
\* frame whose type is none of the five event types, both stop the program
\* (panic): neither is silently ignored.
C17_UnknownFramesFatal ==
    (ObjectHandled /\ (UnknownOp \/ UnknownEventType)) => crashed

(***************************************************************************)
(* The voice events (SpecVoice), on a Node whose registries Close has not  *)
(* dropped.                                                                *)
(***************************************************************************)
\* an OnVoiceStateUpdate of the bot's own user records the session for the
\* guild, over the one recorded before, and touches no other guild
C18_OwnRecorded(g) ==
    \A session \in Sessions :
        (OnVoiceStateUpdate("u1", "u1", g, session) /\ ~node.voiceStatesNil)
            => /\ node'.voiceStates[g].exists
               /\ node'.voiceStates[g].SessionID = session
               /\ \A other \in Guilds \ {g} :
                    node'.voiceStates[other] = node.voiceStates[other]

\* an OnVoiceStateUpdate of another user leaves the registry as it was
C18_OtherIgnored(g) ==
    \A session \in Sessions :
        OnVoiceStateUpdate("u1", "u2", g, session) => UNCHANGED node

\* the registry changes by OnVoiceStateUpdate of the own user, or Close, only
C18_OnlyRecorded(g) ==
    (node'.voiceStates[g] # node.voiceStates[g])
        => \/ \E session \in Sessions : OnVoiceStateUpdate("u1", "u1", g, session)
           \/ NodeClose

\* OnVoiceServerUpdate sends nothing without a recorded session and
\* otherwise one voiceUpdate frame with the guild, the recorded session and
\* the endpoint and token given
C18_ServerUpdate(g) ==
    \A endpoint \in Endpoints, token \in Tokens :
        (OnVoiceServerUpdate(g, endpoint, token) /\ ~node.voiceStatesNil)
            => /\ UNCHANGED node
               /\ IF ~node.voiceStates[g].exists THEN last'.sends = <<>>
                  ELSE /\ Len(last'.sends) = 1
                       /\ last'.sends[1].data =
                            <<[op |-> "voiceUpdate", guildId |-> g,
                               sessionId |-> node.voiceStates[g].SessionID,
                               event |-> [token |-> token, endpoint |-> endpoint]]>>

\* C18: after any sequence of OnVoiceStateUpdate and OnVoiceServerUpdate
\* calls, OnVoiceServerUpdate for a guild sends nothing when no
\* OnVoiceStateUpdate of the bot's own user was recorded for it, and
\* otherwise submits exactly one voiceUpdate frame with the guild, the
\* session of the most recent such call for the guild, and the endpoint and
\* token given; OnVoiceStateUpdate of another user changes nothing.
C18_VoiceUpdate ==
    [][\A g \in Guilds : /\ C18_OwnRecorded(g) /\ C18_OtherIgnored(g)
                         /\ C18_OnlyRecorded(g) /\ C18_ServerUpdate(g)]_vars

\* the frame for a guild whose session was recorded, the other guild's not
C18_Witness ==
    /\ last.op = "OnVoiceServerUpdate"
    /\ ~node.voiceStatesNil
    /\ Len(last.sends) = 1
    /\ last.sends[1].err = "nil"
    /\ last.sends[1].data[1].sessionId = "s2"
    /\ \E g \in Guilds : ~node.voiceStates[g].exists

(***************************************************************************)
(* Close called again (SpecConnect)                                        *)
(***************************************************************************)
\* C19: a second Close on a Socket that was already closed fails cleanly:
\* it returns to the caller and does not panic.
C19_SecondClose ==
    (closer.returned >= 1 /\ closer.calls >= 2) => ~crashed

(***************************************************************************)
(* The Player's state machine, and Play against PlayTrack (SpecPlayer)     *)
(***************************************************************************)
PlayerOps ==
    {"Play", "PlayTrack", "Stop", "Pause", "Resume", "Skip", "Seek", "UpdateVolume",
     "Close"}

\* C24: the state of a Player changes along the documented state machine
\* only: a call on a Player in state None leaves it in None, Playing or
\* Paused, never in Stopped, and a Player in another state comes to None by
\* Close only.
C24_StateMachine ==
    (last.op \in PlayerOps)
        => /\ last.pre.State = "None"
                => heap[last.pid].State \in {"None", "Playing", "Paused"}
           /\ (last.pre.State # "None" /\ heap[last.pid].State = "None")
                => last.op = "Close"

\* C25: in every reachable state a Player whose state is Playing or Paused
\* has a current track.
C25_StateHasTrack ==
    \A pid \in 1..Len(heap) :
        heap[pid].State \in {"Playing", "Paused"} => heap[pid].Track # "nil"

\* C26: a Play call that returns NilTrack or VolumeOutOfRange leaves the
\* Player's state, track, volume and queue as they were before the call.
C26_RejectedPlay ==
    (last.op = "Play" /\ last.result.err \in {"NilTrack", "VolumeOutOfRange"})
        => /\ heap[last.pid].State = last.pre.State
           /\ heap[last.pid].Track = last.pre.Track
           /\ heap[last.pid].Volume = last.pre.Volume
           /\ heap[last.pid].Queue = last.pre.Queue

\* C29: in every Player state and for every track, PlayTrack(t) does what
\* Play does with track t, volume 100, no pause and no other option: the
\* Player is left with the same state, track and volume, the same frames are
\* sent and the same error is returned (NilTrack for no track).
C29_PlayTrackAsPlay ==
    [][\A track \in Tracks \cup {"nil"} :
        PlayTrack(1, track)
            => /\ heap'[1].State = PlayerPlay(heap[1], socket, DefaultPlay(track)).p.State
               /\ heap'[1].Track = PlayerPlay(heap[1], socket, DefaultPlay(track)).p.Track
               /\ heap'[1].Volume = PlayerPlay(heap[1], socket, DefaultPlay(track)).p.Volume
               /\ last'.result.sends = PlayerPlay(heap[1], socket, DefaultPlay(track)).sends
               /\ last'.result.err = PlayerPlay(heap[1], socket, DefaultPlay(track)).err]_vars

(***************************************************************************)
(* Send against Close (SpecSocket), and the conn of a Socket (SpecConnect) *)
(***************************************************************************)
\* C27: while Send calls run together with one Close call made on a
\* connected Socket, no Send call panics on the closed sendChan: every call
\* gets its one result.
C27_SendAgainstClose ==
    (closer.calls = 1 /\ closer.onConnected) => ~crashed

\* C28: outside a running Close, the Socket holds a conn exactly when it is
\* connected; Connect on a Socket that holds a conn fails without a dial;
\* and after Close has returned the Socket holds no conn, so that a later
\* Connect dials again.
C28_OneHandle ==
    /\ closer.pc = "idle" => ((socket.conn # "nil") <=> socket.connected)
    /\ (last.op = "Connect" /\ last.pre.conn # "nil")
            => (last.err = "AlreadyOpen" /\ last.dials = 0)
    /\ (closer.pc = "idle" /\ closer.returned >= 1 /\ ~crashed /\ last.op # "Connect")
            => socket.conn = "nil"

(***************************************************************************)
(* Join and Leave running concurrently (SpecJoin)                          *)
(***************************************************************************)
\* a Join stores its new Player for a guild that has none at that moment
C21_StoreIfAbsent(c) ==
    (Registry(c) /\ NextIns(c).do = "Store") => node.players[NextIns(c).guildID] = 0

\* ConnectVoice is called for a guild that has no Player at that moment
C21_VoiceIfAbsent(c) ==
    \A voiceFails \in BOOLEAN :
        (Voice(c, voiceFails) /\ "ConnectVoice" \in node.callbacks)
            => node.players[calls[c].arg.guildID] = 0

\* a Leave deletes the entry of the Player it loaded and closed
C21_DeleteLoaded(c) ==
    (Registry(c) /\ NextIns(c).do = "Delete")
        => node.players[NextIns(c).guildID] = calls[c].pid

\* a guild's entry is replaced or removed by the Delete of a Leave only
C21_KeptUntilLeave ==
    \A g \in Guilds :
        (node.players[g] # 0 /\ node'.players[g] # node.players[g])
            => \E c \in Callers : Registry(c) /\ NextIns(c).do = "Delete"

\* C21: under every interleaving of concurrent Join and Leave calls for a
\* guild on a connected Node, the test for the guild's Player and the
\* insertion or removal act as one: a Player is created, and ConnectVoice
\* called, only for a guild that has no Player, a Leave removes the Player it
\* closed, and the Player a Join returned stays registered until a Leave.
C21_JoinLeaveAtomic ==
    [][/\ \A c \in Callers : /\ C21_StoreIfAbsent(c) /\ C21_VoiceIfAbsent(c)
                             /\ C21_DeleteLoaded(c)
       /\ C21_KeptUntilLeave]_vars

(***************************************************************************)
(* Stop against a TrackEnd frame (SpecStopEnd)                             *)
(***************************************************************************)
\* C22: a Stop call and the handling of a TrackEnd frame for the same
\* registered Player, run concurrently, never panic, both end in whichever
\* order their statements interleave, and when both have ended the Player's
\* state is Stopped, its track and queue are what they were, and its lock
\* is free.
C22_StopAndTrackEnd ==
    /\ [](~crashed)
    /\ []((\A c \in Callers : Ended(calls[c]))
            => /\ heap[1].State = "Stopped"
               /\ heap[1].Track = calls[1].pre.Track
               /\ heap[1].Queue = calls[1].pre.Queue
               /\ mutex[1] = 0)
    /\ \A c \in Callers : Running(calls[c]) ~> Ended(calls[c])

\* both ended after running together on a playing Player with a queued
\* track: the stop frame was written and the TrackEnded event delivered
C22_Witness ==
    /\ \A c \in Callers : Ended(calls[c]) /\ calls[c].overlapped
    /\ calls[1].op = "Stop" /\ calls[1].err = "nil"
    /\ calls[1].pre.State = "Playing" /\ calls[1].pre.Queue # <<>>
    /\ Len(calls[2].events) = 1
    /\ heap[1].State = "Stopped" /\ heap[1].Track = "t1"

(***************************************************************************)
(* The Player's lock (SpecRace)                                            *)
(***************************************************************************)
\* C23: every statement of a call or of the frame handling that reads or
\* writes a Player's state, track, position, queue, volume or last-update
\* time is executed by a goroutine holding that Player's lock.
C23_LockedAccess == (last.op = "access") => last.locked

(***************************************************************************)
(* Skip (SpecSkips)                                                        *)
(***************************************************************************)
\* Get takes the head of the queue and leaves the queue as it is
C30_GetsHead(c) ==
    (Access(c) /\ NextIns(c).do = "Get" /\ heap[1].Queue # <<>>)
        => /\ calls'[c].current = Head(heap[1].Queue)
           /\ heap'[1].Queue = heap[1].Queue

\* Remove removes the head, which is the track the call got
C30_RemovesOwn(c) ==
    (Access(c) /\ NextIns(c).do = "Remove")
        => /\ heap[1].Queue # <<>>
           /\ calls[c].current = Head(heap[1].Queue)
           /\ heap'[1].Queue = Tail(heap[1].Queue)

\* the queue changes by the Remove of a Skip only
C30_OnlyRemoved ==
    (heap'[1].Queue # heap[1].Queue)
        => \E c \in Callers : Access(c) /\ NextIns(c).do = "Remove"

\* a Skip that ran with no other call returns, when it found a queue and a
\* state other than None, with the queue's head playing, the rest of the
\* queue in its order, the former track as skipped and the head as current,
\* and the play frame of the head the last one written
C30_SkipAlone(c) ==
    (SendFrame(c) /\ ~calls[c].overlapped /\ calls[c].pre.State # "None"
            /\ calls[c].pre.Queue # <<>>)
        => /\ calls'[c].skipped = calls[c].pre.Track
           /\ calls'[c].current = Head(calls[c].pre.Queue)
           /\ heap'[1].Queue = Tail(calls[c].pre.Queue)
           /\ heap'[1].Track = Head(calls[c].pre.Queue)
           /\ heap'[1].State = "Playing"
           /\ wire'[Len(wire')].data[1].op = "play"
           /\ wire'[Len(wire')].data[1].track = Head(calls[c].pre.Queue)

\* C30: Skip on a Player with a non-empty queue and a state other than None
\* removes the queue's head, makes it the current track with state Playing,
\* returns the former track as skipped and the head as next and keeps the
\* order of the rest; under concurrent Skip calls every queued track is
\* taken by one call only, and Skips made one after the other play the
\* tracks in the order of the queue.
C30_Skip ==
    [][/\ \A c \in Callers : /\ C30_GetsHead(c) /\ C30_RemovesOwn(c) /\ C30_SkipAlone(c)
       /\ C30_OnlyRemoved]_vars

\* two Skips that ran together have returned, one with each queued track
C30_Witness ==
    \E c, d \in Callers :
        /\ calls[c].op = "Skip" /\ calls[d].op = "Skip"
        /\ Ended(calls[c]) /\ Ended(calls[d])
        /\ calls[c].overlapped /\ calls[d].overlapped
        /\ calls[c].current = "t2" /\ calls[d].current = "t1"
        /\ heap[1].Queue = <<>>
        /\ Len(wire) = 2

(***************************************************************************)
(* Frames for a guild without a Player (SpecFrames)                        *)
(***************************************************************************)
\* a playerUpdate frame or one of the four track events
C32_Addressed(object) ==
    /\ "op" \in DOMAIN object
    /\ \/ object.op = "playerUpdate"
       \/ /\ object.op = "event"
          /\ object.type \in {"TrackStartEvent", "TrackEndEvent", "TrackExceptionEvent",
                              "TrackStuckEvent"}

\* C32: a playerUpdate frame or a track event frame (TrackStart, TrackEnd,
\* TrackException, TrackStuck) addressed to a guild that has no registered
\* Player is discarded: no Player and no track position is changed, no
\* callback is invoked, nothing is sent and handling it does not panic.
\* (A step that leaves such a frame in last is the handling of that frame.)
C32_NoPlayerDiscards ==
    [][(/\ last'.op = "socketDataReceived"
        /\ Len(last'.data) = 1
        /\ C32_Addressed(last'.data[1])
        /\ node.players[last'.data[1].guildId] = 0)
            => /\ UNCHANGED <<heap, trackPos, node, accepted, wire, senders>>
               /\ ~crashed'
               /\ last'.events = <<>>]_vars

\* a TrackEnd frame without a reason was handled for a guild whose Player a
\* Leave had removed, on a Node with its callbacks set
C32_Witness ==
    /\ last.op = "socketDataReceived"
    /\ Len(last.data) = 1
    /\ C32_Addressed(last.data[1])
    /\ last.data[1].op = "event"
    /\ last.data[1].type = "TrackEndEvent"
    /\ "reason" \notin DOMAIN last.data[1]
    /\ node.players[last.data[1].guildId] = 0
    /\ \E pid \in 1..Len(heap) : heap[pid].GuildID = last.data[1].guildId
    /\ node.callbacks = Callbacks
    /\ ~crashed

(***************************************************************************)
(* After Node.Close (Spec)                                                 *)
(***************************************************************************)
\* Node.Close has returned and the Node has not been seen connected since
C33_Closed == node.playersNil /\ ~node.connected /\ ~crashed

\* C33: once Node.Close has returned, the Node stays not-connected until
\* the next Connect call, whenever the on-open goroutine is scheduled: a
\* step other than a Connect call leaves it not-connected, a Join or Leave
\* made then returns NotConnected, and nothing panics on the registry that
\* Close dropped.
C33_ClosedStaysClosed ==
    [][(C33_Closed /\ last'.op # "NodeConnect")
            => /\ ~node'.connected
               /\ ~crashed'
               /\ last'.op \in {"Join", "Leave"} => last'.err = "NotConnected"]_vars

(***************************************************************************)
(* The order of event frames (SpecOrder)                                   *)
(***************************************************************************)
\* the state a track event frame implies
C31_Implied(frame) == IF frame.type = "TrackStartEvent" THEN "Playing" ELSE "Stopped"

=============================================================================
